---- MODULE Spec2Model ----
(***************************************************************************)
(* A model of LeadShark's enrichment core: the managed-column set-up and   *)
(* row processing of handlers/orchestrator.py, the header row as           *)
(* utils/sheets.py reads and writes it, and the URL extraction of          *)
(* utils/normalize.py.                                                     *)
(*                                                                         *)
(* Strings are modelled structurally.  A header cell is a record           *)
(* [ns, kind, idx]: ns is the namespace prefix the text starts with ("" if *)
(* none of the namespaces in use), kind the rest of the text and idx the   *)
(* number of a LINK_<idx>_SUMMARY header.  The empty cell '' is Blank, a   *)
(* cell holding only white space has kind " ".                             *)
(***************************************************************************)
EXTENDS Integers, Sequences, FiniteSets, TLC

\* ------------------------------------------------------------------ bounds
MaxHdrLen == 3          \* longest header row drawn by InitColumns
MaxLinkSummaries == 1   \* largest max_link_summaries passed to setup_managed_columns
MaxHeaderWrites == 2    \* update_headers calls followed in one behaviour
MaxCellItems == 3       \* most texts typed into one cell by InitUrl
MaxRows == 2            \* most lead rows of the sheet drawn by InitSheet
MaxResults == 2         \* most entries of the url_results drawn by InitScore
MaxScoreCalls == 2      \* most calculate_score calls on one url_results
MaxReportResults == 2   \* most results handed to _generate_row_updates
MaxUserColumns == 56    \* most user columns of the sheet drawn by InitNde
MaxEnsureCalls == 2     \* most ensure_enrichment_headers calls on one sheet
MaxLinkRows == 2        \* most lead rows of the sheet drawn by InitLink
MaxDailyLimit == 3      \* largest DAILY_LINK_LIMIT drawn by InitLink
MaxRuns == 2            \* most runs of the LinkIntelligenceOrchestrator on one sheet
MaxIntel == 3           \* most entries of all_link_intel drawn by InitFinalReport
MaxRateCalls == 3       \* most _apply_rate_limiting calls followed
MaxGap == 6             \* longest time in seconds between two calls
MaxCacheOps == 5        \* most cache calls and clock steps followed

\* ------------------------------------------------------------ header cells
Hdr(ns, kind, idx) == [ns |-> ns, kind |-> kind, idx |-> idx]

Blank == Hdr("", "", 0)

Namespaces == {"ENRICH_", "CUSTOM_"}

\* str.startswith(namespace) on a header cell
startswith(h, ns) == h.ns = ns

\* truthiness of a Python string: '' is falsy
truthy(h) == h # Blank

\* str.strip() on a header cell: white space only becomes ''
strip(h) == IF h.ns = "" /\ h.kind = " " THEN Blank ELSE h

SetMax(S) == CHOOSE m \in S : \A x \in S : x <= m

SetMin(S) == CHOOSE m \in S : \A x \in S : m <= x

\* ----------------------------------------------- setup_managed_columns
\* required_headers: LINK_1..LINK_n, then the five fixed headers
required_headers(ns, n) ==
    [i \in 1..n |-> Hdr(ns, "LINK_SUMMARY", i)] \o
    << Hdr(ns, "COMBINED_REPORT", 0), Hdr(ns, "LEAD_SCORE", 0),
       Hdr(ns, "LEAD_SCORE_NOTES", 0), Hdr(ns, "STATUS", 0),
       Hdr(ns, "LAST_RUN", 0) >>

\* the scan over enumerate(headers, 1): a later duplicate overwrites the entry
scan_managed_mut(headers, ns) ==
    LET idxs == {i \in 1..Len(headers) :
                    truthy(headers[i]) /\ startswith(headers[i], ns)}
    IN  [h \in {headers[i] : i \in idxs} |->
            SetMax({i \in idxs : headers[i] = h}) - 1]

scan_managed(headers, ns) ==
    LET idxs == {i \in 1..Len(headers) :
                    truthy(headers[i]) /\ startswith(headers[i], ns)}
    IN  [h \in {headers[i] : i \in idxs} |->
            SetMax({i \in idxs : headers[i] = h})]

missing_headers(headers, ns, n) ==
    LET managed == scan_managed(headers, ns)
    IN  SelectSeq(required_headers(ns, n), LAMBDA h : h \notin DOMAIN managed)

insert_col_mut(headers, ns) ==
    LET managed == scan_managed(headers, ns)
    IN  IF DOMAIN managed = {}
        THEN Cardinality({i \in 1..Len(headers) :
                 truthy(headers[i]) /\ truthy(strip(headers[i]))}) + 1
        ELSE SetMax({managed[h] : h \in DOMAIN managed})

\* insert_col: after the count of non-blank headers (fresh block) or after
\* the right-most managed column (extension)
insert_col(headers, ns) ==
    LET managed == scan_managed(headers, ns)
    IN  IF DOMAIN managed = {}
        THEN Cardinality({i \in 1..Len(headers) :
                 truthy(headers[i]) /\ truthy(strip(headers[i]))}) + 1
        ELSE SetMax({managed[h] : h \in DOMAIN managed}) + 1

new_headers_mut(headers, ns, n) ==
    LET miss == missing_headers(headers, ns, n)
        ins  == insert_col(headers, ns)
        last == IF Len(headers) > ins THEN Len(headers) ELSE ins
    IN  [j \in 1..last |->
            IF j = ins THEN miss[Len(miss)]
            ELSE IF j <= Len(headers) THEN headers[j] ELSE Blank]

\* new_headers: headers.copy(), padded with '' and with every missing
\* header stored at insert_col + i
new_headers(headers, ns, n) ==
    LET miss == missing_headers(headers, ns, n)
        ins  == insert_col(headers, ns)
        top  == ins + Len(miss) - 1
        last == IF Len(headers) > top THEN Len(headers) ELSE top
    IN  [j \in 1..last |->
            IF j >= ins /\ j <= top THEN miss[j - ins + 1]
            ELSE IF j <= Len(headers) THEN headers[j] ELSE Blank]

\* managed_columns as returned: scanned entries plus the new ones
managed_columns(headers, ns, n) ==
    LET managed == scan_managed(headers, ns)
        miss    == missing_headers(headers, ns, n)
        ins     == insert_col(headers, ns)
        newset  == {miss[i] : i \in 1..Len(miss)}
    IN  [h \in DOMAIN managed \cup newset |->
            IF h \in newset
            THEN ins + (CHOOSE i \in 1..Len(miss) : miss[i] = h) - 1
            ELSE managed[h]]

\* ------------------------------------------------------- update_headers
UpdateOutcomes == {"ok", "clear_failed", "update_failed"}

\* the header row after update_headers: batch_clear of row 1, then update
update_headers(row, headers, outcome) ==
    CASE outcome = "ok"            -> headers
      [] outcome = "clear_failed"  -> row
      [] outcome = "update_failed" -> << >>

NoMapping == [h \in {} |-> 0]

NoCall == [called |-> FALSE, n |-> 0, before |-> << >>, after |-> << >>,
           raised |-> FALSE, wrote |-> FALSE, mapping |-> NoMapping]

\* one call of setup_managed_columns on header row `row`
setup_call(row, ns, n, outcome) ==
    IF row = << >>
    THEN [called |-> TRUE, n |-> n, before |-> row, after |-> row,
          raised |-> TRUE, wrote |-> FALSE, mapping |-> NoMapping]
    ELSE IF Len(missing_headers(row, ns, n)) = 0
    THEN [called |-> TRUE, n |-> n, before |-> row, after |-> row,
          raised |-> FALSE, wrote |-> FALSE,
          mapping |-> scan_managed(row, ns)]
    ELSE [called |-> TRUE, n |-> n, before |-> row,
          after |-> update_headers(row, new_headers(row, ns, n), outcome),
          raised |-> outcome # "ok", wrote |-> TRUE,
          mapping |-> IF outcome = "ok" THEN managed_columns(row, ns, n)
                      ELSE NoMapping]


\* ------------------------------------------------------------------ text
(***************************************************************************)
(* Cell text and URLs are sequences of tokens.  A token is a run of        *)
(* characters that the regular expressions of utils/normalize.py treat as  *)
(* a unit: a protocol prefix, a word (letters only, two or more, so it is  *)
(* both a valid domain label and a valid TLD), one punctuation character,  *)
(* or a whole query string.  A query token is always the last token of a   *)
(* URL.                                                                    *)
(***************************************************************************)
Protos == {"https://", "http://"}

Words == {"example", "Example", "com", "www", "linkedin", "in", "about",
          "john", "John"}

QueryTokens == {"?id=1", "?utm_source=x"}

\* self.url_separators
url_separators == {",", "|", "\n", ";", " "}

\* the character class [^\s<>"{}|\\^`\[\]] of url_patterns
PathChar(t) == t \notin {" ", "\n", "|"}

IsWord(t) == t \in Words

\* str.lower() on a token
lower(t) == IF t = "Example" THEN "example"
            ELSE IF t = "John" THEN "john" ELSE t

\* last index j >= k with part[k..j] all in the path character class
RunEnd(part, k) ==
    SetMax({j \in k..Len(part) : \A m \in k..j : PathChar(part[m])})

\* cell_value.split(separator) for every separator in turn, empty parts
\* dropped by the `if not part: continue` of the caller
RECURSIVE split_parts(_, _)
split_parts(cell, cur) ==
    IF cell = << >>
    THEN IF cur = << >> THEN << >> ELSE << cur >>
    ELSE IF Head(cell) \in url_separators
         THEN (IF cur = << >> THEN << >> ELSE << cur >>)
                  \o split_parts(Tail(cell), << >>)
         ELSE split_parts(Tail(cell), Append(cur, Head(cell)))

\* re.findall(url_patterns[0], part): https?:// and one or more path chars
RECURSIVE findall_http(_, _)
findall_http(part, i) ==
    IF i > Len(part) THEN << >>
    ELSE IF part[i] \in Protos /\ i < Len(part) /\ PathChar(part[i + 1])
         THEN << SubSeq(part, i, RunEnd(part, i + 1)) >>
                  \o findall_http(part, RunEnd(part, i + 1) + 1)
         ELSE findall_http(part, i + 1)

\* label \. tld at token k
DomainAt(part, k) ==
    /\ k + 2 <= Len(part)
    /\ IsWord(part[k]) /\ part[k + 1] = "." /\ IsWord(part[k + 2])

\* end of the match of url_patterns[1] that starts at token i, 0 if none:
\* (?:www\.)? label \. tld (?:/ path chars)?
BareMatchEnd(part, i) ==
    LET k == IF part[i] = "www" /\ i + 1 <= Len(part) /\ part[i + 1] = "."
                  /\ DomainAt(part, i + 2)
             THEN i + 2 ELSE i
    IN  IF ~DomainAt(part, k) THEN 0
        ELSE IF k + 3 <= Len(part) /\ part[k + 3] = "/"
             THEN RunEnd(part, k + 3)
             ELSE k + 2

\* re.findall(url_patterns[1], part)
RECURSIVE findall_bare(_, _)
findall_bare(part, i) ==
    IF i > Len(part) THEN << >>
    ELSE IF BareMatchEnd(part, i) # 0
         THEN << SubSeq(part, i, BareMatchEnd(part, i)) >>
                  \o findall_bare(part, BareMatchEnd(part, i) + 1)
         ELSE findall_bare(part, i + 1)

_looks_like_domain(text) ==
    LET t == IF Len(text) >= 2 /\ text[1] = "www" /\ text[2] = "."
             THEN SubSeq(text, 3, Len(text)) ELSE text
    IN  /\ DomainAt(t, 1)
        /\ Len(t) = 3 \/ t[4] = "/"

\* the URLs one part of a cell contributes
part_urls(part) ==
    LET m1 == findall_http(part, 1)
        m2 == findall_bare(part, 1)
    IN  m1 \o m2 \o
        (IF m1 = << >> /\ m2 = << >> /\ _looks_like_domain(part)
         THEN IF part[1] \in Protos THEN << part >>
              ELSE << << "https://" >> \o part >>
         ELSE << >>)

RECURSIVE parts_urls(_)
parts_urls(parts) ==
    IF parts = << >> THEN << >>
    ELSE part_urls(Head(parts)) \o parts_urls(Tail(parts))

_extract_urls_from_cell(cell_value) ==
    parts_urls(split_parts(cell_value, << >>))

\* ----------------------------------------------------------- urlparse
\* index of the first token in `stops`, Len + 1 if there is none
RECURSIVE FirstIdxFrom(_, _, _)
FirstIdxFrom(seq, stops, i) ==
    IF i > Len(seq) \/ seq[i] \in stops THEN i
    ELSE FirstIdxFrom(seq, stops, i + 1)

FirstIdx(seq, stops) == FirstIdxFrom(seq, stops, 1)

\* urlparse(url) of a URL that starts with a protocol
urlparse(url) ==
    LET rest == Tail(url)
        p == FirstIdx(rest, {"/"} \cup QueryTokens)
        q == FirstIdx(rest, QueryTokens)
    IN  [scheme |-> url[1],
         netloc |-> SubSeq(rest, 1, p - 1),
         path   |-> SubSeq(rest, p, q - 1),
         query  |-> SubSeq(rest, q, Len(rest))]

\* remove_params of _clean_query_params, as query tokens
TrackingQueries == {"?utm_source=x"}

_clean_query_params(query) ==
    SelectSeq(query, LAMBDA t : t \notin TrackingQueries)

\* None and '' are both falsy
None == << >>

_normalize_url(url) ==
    IF url = << >> THEN None
    ELSE LET u == IF url[1] \in Protos THEN url ELSE << "https://" >> \o url
             parsed == urlparse(u)
         IN  IF parsed.netloc = << >> THEN None
             ELSE << parsed.scheme >>
                    \o [i \in 1..Len(parsed.netloc) |-> lower(parsed.netloc[i])]
                    \o parsed.path
                    \o _clean_query_params(parsed.query)

dedup_key_mut(url) ==
    << urlparse(url).scheme, urlparse(url).netloc >>

\* the key (scheme, host, path) of _deduplicate_urls
dedup_key(url) ==
    LET parsed == urlparse(url)
    IN  << parsed.scheme,
           [i \in 1..Len(parsed.netloc) |-> lower(parsed.netloc[i])],
           parsed.path >>

RECURSIVE dedup_from(_, _)
dedup_from(urls, seen) ==
    IF urls = << >> THEN << >>
    ELSE IF dedup_key(Head(urls)) \in seen
         THEN dedup_from(Tail(urls), seen)
         ELSE << Head(urls) >>
                  \o dedup_from(Tail(urls), seen \cup {dedup_key(Head(urls))})

_deduplicate_urls(urls) == dedup_from(urls, {})

\* ------------------------------------------------ _identify_url_columns
\* does a header's text match one of url_column_patterns
is_url_header(h) ==
    \/ h.kind \in {"LINK_SUMMARY", "website", "company", "linkedin"}

\* any of the url_indicators occurs in the text
_contains_url(text) ==
    \/ \E i \in 1..Len(text) : text[i] \in Protos
    \/ \E i \in 1..Len(text) - 1 : text[i] = "www" /\ text[i + 1] = "."
    \/ \E i \in 1..Len(text) - 1 : text[i] = "." /\ lower(text[i + 1]) = "com"

_identify_url_columns(headers, row) ==
    {i \in 1..Len(headers) :
        /\ truthy(headers[i])
        /\ \/ is_url_header(headers[i])
           \/ i <= Len(row) /\ row[i] # << >> /\ _contains_url(row[i])}

RECURSIVE CellsOf(_, _, _)
CellsOf(row, cols, i) ==
    IF i > Len(row) THEN << >>
    ELSE (IF i \in cols /\ row[i] # << >> THEN _extract_urls_from_cell(row[i])
          ELSE << >>) \o CellsOf(row, cols, i + 1)

\* all_urls of extract_urls_from_row
all_urls(headers, row) == CellsOf(row, _identify_url_columns(headers, row), 1)

normalized_urls(urls) ==
    SelectSeq([i \in 1..Len(urls) |-> _normalize_url(urls[i])],
              LAMBDA u : u # None)

extract_urls_from_row(headers, row) ==
    _deduplicate_urls(normalized_urls(all_urls(headers, row)))

\* ---------------------------------------------------------- handlers
TwitterDomains == { << "twitter", ".", "com" >>, << "www", ".", "twitter", ".", "com" >>,
                    << "x", ".", "com" >>, << "www", ".", "x", ".", "com" >> }

YouTubeDomains == { << "youtube", ".", "com" >>, << "www", ".", "youtube", ".", "com" >>,
                    << "youtu", ".", "be" >>, << "m", ".", "youtube", ".", "com" >> }

GitHubDomains == { << "github", ".", "com" >>, << "www", ".", "github", ".", "com" >> }

\* specialized_domains of WebsiteHandler.can_handle
specialized_domains ==
    { << "linkedin", ".", "com" >>, << "www", ".", "linkedin", ".", "com" >>,
      << "youtube", ".", "com" >>, << "www", ".", "youtube", ".", "com" >> }
    \cup TwitterDomains \cup GitHubDomains

\* words that hold one of NewsHandler's domain or path keywords
NewsWords == {"news", "blog", "posts", "press", "techcrunch", "forbes"}

\* urlparse(url).netloc.lower()
_extract_domain(url) ==
    LET netloc == urlparse(url).netloc
    IN  [i \in 1..Len(netloc) |-> lower(netloc[i])]

news_can_handle(url) ==
    LET domain == _extract_domain(url)
        path == urlparse(url).path
    IN  \/ \E i \in 1..Len(domain) : domain[i] \in NewsWords
        \/ \E i \in 1..Len(path) : lower(path[i]) \in NewsWords

website_can_handle(url) ==
    /\ urlparse(url).scheme \in Protos
    /\ _extract_domain(url) \notin specialized_domains

\* the first handler of self.handlers whose can_handle accepts the URL
_find_handler(url) ==
    LET domain == _extract_domain(url)
    IN  CASE domain \in TwitterDomains -> "twitter"
          [] domain \in YouTubeDomains -> "youtube"
          [] domain \in GitHubDomains  -> "github"
          [] news_can_handle(url)      -> "news"
          [] website_can_handle(url)   -> "website"
          [] OTHER                     -> "none"

\* what handler.process(url) can come back with; "raise" is an exception
ProcessOutcomes == {"OK", "ERROR", "SKIPPED_TOS", "raise"}

\* the status of the result appended for an outcome
result_status(outcome) == IF outcome = "raise" THEN "ERROR" ELSE outcome

\* url_results of _process_single_row: one result per URL with a handler
RECURSIVE url_results(_, _, _)
url_results(urls, outs, i) ==
    IF i > Len(urls) THEN << >>
    ELSE (IF _find_handler(urls[i]) = "none" THEN << >>
          ELSE << [url |-> urls[i], status |-> result_status(outs[i])] >>)
            \o url_results(urls, outs, i + 1)

\* ------------------------------------------------------- row updates
\* a value written to a cell: what it is, for a summary of which result,
\* and for a status its text
Val(kind, link, text) == [kind |-> kind, link |-> link, text |-> text]

\* managed_columns.get(header): None is column 0
mc_get(mc, h) == IF h \in DOMAIN mc THEN mc[h] ELSE 0

\* a dict built by assigning the pairs in order
DictOf(pairs) ==
    [k \in {pairs[i][1] : i \in 1..Len(pairs)} |->
        pairs[SetMax({i \in 1..Len(pairs) : pairs[i][1] = k})][2]]

\* the updates of the NO_LINKS and ERROR early returns
status_updates(mc, status) ==
    DictOf(<< << mc_get(mc, Hdr("ENRICH_", "STATUS", 0)), Val("STATUS", 0, status) >>,
              << mc_get(mc, Hdr("ENRICH_", "LAST_RUN", 0)), Val("TIMESTAMP", 0, "") >> >>)

\* config.get('MAX_LINK_SUMMARIES', 5) and the default of max_link_summaries
MAX_LINK_SUMMARIES == 5

Min(a, b) == IF a < b THEN a ELSE b

\* _generate_row_updates: the keys that are None are never assigned
_generate_row_updates(mc, results) ==
    DictOf(SelectSeq(
        [i \in 1..Min(Len(results), MAX_LINK_SUMMARIES) |->
            << IF _find_handler(results[i].url) = "none" THEN 0
               ELSE mc_get(mc, Hdr("ENRICH_", "LINK_SUMMARY", i)),
               Val("SUMMARY", i, "") >>] \o
        << << mc_get(mc, Hdr("ENRICH_", "COMBINED_REPORT", 0)), Val("COMBINED_REPORT", 0, "") >>,
           << mc_get(mc, Hdr("ENRICH_", "LEAD_SCORE", 0)), Val("LEAD_SCORE", 0, "") >>,
           << mc_get(mc, Hdr("ENRICH_", "LEAD_SCORE_NOTES", 0)), Val("LEAD_SCORE_NOTES", 0, "") >>,
           << mc_get(mc, Hdr("ENRICH_", "STATUS", 0)), Val("STATUS", 0, "OK") >>,
           << mc_get(mc, Hdr("ENRICH_", "LAST_RUN", 0)), Val("TIMESTAMP", 0, "") >> >>,
        LAMBDA pr : pr[1] # 0))

\* overall_status of _process_single_row
overall_status(statuses) ==
    IF \A i \in 1..Len(statuses) : statuses[i] = "SKIPPED_TOS" THEN "SKIPPED_TOS"
    ELSE IF \A i \in 1..Len(statuses) : statuses[i] = "ERROR" THEN "ERROR"
    ELSE IF \E i \in 1..Len(statuses) : statuses[i] = "OK" THEN "OK"
    ELSE "ERROR"

\* _process_single_row from the point where extract_urls_from_row has
\* returned urls (force_domains None), outs the outcomes of handler.process
_process_single_row(urls, mc, outs) ==
    LET res  == url_results(urls, outs, 1)
        invoked == SelectSeq(urls, LAMBDA u : _find_handler(u) # "none")
    IN  IF urls = << >>
        THEN [urls |-> urls, invoked |-> << >>, statuses |-> << >>,
              status |-> "NO_LINKS", updates |-> status_updates(mc, "NO_LINKS")]
        ELSE IF res = << >>
        THEN [urls |-> urls, invoked |-> invoked, statuses |-> << >>,
              status |-> "ERROR", updates |-> status_updates(mc, "ERROR")]
        ELSE [urls |-> urls, invoked |-> invoked,
              statuses |-> [i \in 1..Len(res) |-> res[i].status],
              status |-> overall_status([i \in 1..Len(res) |-> res[i].status]),
              updates |-> _generate_row_updates(mc, res)]

\* update_cells raises on a column that is None, before anything is sent
update_cells_raises(updates) == 0 \in DOMAIN updates

\* not text.strip(): the cell is empty or holds white space only
blank_text(text) == \A i \in 1..Len(text) : text[i] \in {" ", "\n"}

\* process_rows of process_sheet (row_range None) after the only_new
\* filter, as the positions in data_rows of the rows kept; the code keeps
\* the rows alone
process_rows(data_rows, mc, only_new) ==
    LET combined_report_col == mc_get(mc, Hdr("ENRICH_", "COMBINED_REPORT", 0))
        all_rows == [i \in 1..Len(data_rows) |-> i]
    IN  IF only_new /\ combined_report_col # 0
        THEN SelectSeq(all_rows, LAMBDA i :
                \/ Len(data_rows[i]) <= combined_report_col - 1
                \/ blank_text(data_rows[i][combined_report_col]))
        ELSE all_rows

\* handler.process issues an HTTP request to the URL itself: NewsHandler
\* and WebsiteHandler get the page unless the result came from the cache or
\* (WebsiteHandler) robots.txt forbade it; the other handlers ask an API
fetch_issued(url, out, hit) ==
    /\ _find_handler(url) \in {"news", "website"}
    /\ ~hit
    /\ out \in {"OK", "ERROR"}

\* ------------------------------------------------------------ scoring
\* self.weights of LeadScorer
weights_mut ==
    [relevance |-> 35, purchase_intent |-> 25, authority |-> 20,
     recency |-> 15, data_quality |-> 10]

weights ==
    [relevance |-> 30, purchase_intent |-> 25, authority |-> 20,
     recency |-> 15, data_quality |-> 10]

\* a value of result.get('key_points') or result.get('signals'): the key is
\* missing, the value is None, or it is a list of texts
Missing == [tag |-> "missing", items |-> << >>]

NoneList == [tag |-> "None", items |-> << >>]

ListOf(items) == [tag |-> "list", items |-> items]

\* an entry of urs: a dict, or None
ResultDict(status, key_points, signals) ==
    [dict |-> TRUE, status |-> status, key_points |-> key_points, signals |-> signals]

NoneResult == [dict |-> FALSE, status |-> "None", key_points |-> Missing, signals |-> Missing]

\* the keywords of the scorer that occur in a text, lower-cased
KeywordsIn(text) ==
    CASE text = "SaaS platform"     -> {"saas", "platform"}
      [] text = "Pricing plans"     -> {"pricing", "plans"}
      [] text = "Free demo"         -> {"demo"}
      [] text = "We are hiring"     -> {"hiring"}
      [] text = "Consulting agency" -> {"consulting", "agency"}
      [] text = "Recent post"       -> {"recent", "recent post"}
      [] text = "Founded Inc."      -> {"founded", "inc."}
      [] OTHER                      -> {}

\* what the follower and the star patterns find in a text, 0 if nothing
FollowersIn(text) == IF text = "12K followers" THEN 12000 ELSE 0

StarsIn(text) == IF text = "150 stars" THEN 150 ELSE 0

\* result.get(key, []) of a dict
get_list(value) == IF value.tag = "missing" THEN ListOf(<< >>) ELSE value

\* _extract_all_content raises TypeError on content_parts.extend(None)
extend_raises(rs) ==
    \E i \in 1..Len(rs) :
        \/ rs[i].key_points.tag = "None"
        \/ rs[i].signals.tag = "None"

\* _extract_all_content: the texts that ' '.join puts one after another
RECURSIVE _extract_all_content(_)
_extract_all_content(rs) ==
    IF rs = << >> THEN << >>
    ELSE get_list(Head(rs).key_points).items
           \o get_list(Head(rs).signals).items
           \o _extract_all_content(Tail(rs))

\* keyword in content_lower
has(content, keyword) ==
    \E i \in 1..Len(content) : keyword \in KeywordsIn(content[i])

\* sum(1 for keyword in keywords if keyword in content_lower)
matches(content, keywords) == Cardinality({k \in keywords : has(content, k)})

relevance_high ==
    {"saas", "software", "technology", "digital", "automation", "platform",
     "api", "integration", "cloud", "data", "analytics", "marketing", "sales",
     "crm", "lead generation"}

relevance_medium ==
    {"business", "service", "solution", "consulting", "agency", "startup",
     "company", "organization"}

intent_high ==
    {"pricing", "plans", "contact sales", "get started", "free trial", "demo",
     "quote", "buy now", "purchase", "subscription", "upgrade", "enterprise"}

intent_medium ==
    {"solution", "service", "product", "offering", "hire", "hiring",
     "looking for", "need help"}

_score_relevance(rs) ==
    LET content == _extract_all_content(rs)
        high == matches(content, relevance_high)
        medium == matches(content, relevance_medium)
    IN  IF high >= 3 THEN 90
        ELSE IF high >= 2 THEN 75
        ELSE IF high >= 1 THEN 60
        ELSE IF medium >= 2 THEN 40
        ELSE IF medium >= 1 THEN 25
        ELSE 10

_score_purchase_intent(rs) ==
    LET content == _extract_all_content(rs)
        high == matches(content, intent_high)
        medium == matches(content, intent_medium)
        has_pricing == \E w \in {"pricing", "plans", "cost"} : has(content, w)
        has_contact_sales == \E w \in {"contact sales", "sales team"} : has(content, w)
        has_trial == \E w \in {"free trial", "trial", "demo"} : has(content, w)
        is_hiring == has(content, "hiring") \/ has(content, "careers")
    IN  IF has_contact_sales \/ has_pricing THEN 90
        ELSE IF has_trial THEN 75
        ELSE IF high >= 2 THEN 65
        ELSE IF high >= 1 THEN 50
        ELSE IF is_hiring THEN 45
        ELSE IF medium >= 2 THEN 35
        ELSE IF medium >= 1 THEN 20
        ELSE 5

Max(a, b) == IF a > b THEN a ELSE b

\* re.search in the joined content: the first text that matches
RECURSIVE first_count(_, _)
first_count(counts, i) ==
    IF i > Len(counts) THEN 0
    ELSE IF counts[i] # 0 THEN counts[i]
    ELSE first_count(counts, i + 1)

_extract_follower_count(content) ==
    first_count([i \in 1..Len(content) |-> FollowersIn(content[i])], 1)

_extract_github_stars(content) ==
    first_count([i \in 1..Len(content) |-> StarsIn(content[i])], 1)

_score_authority(rs) ==
    LET content == _extract_all_content(rs)
        followers == _extract_follower_count(content)
        stars == _extract_github_stars(content)
        s1 == IF followers >= 100000 THEN 90
              ELSE IF followers >= 10000 THEN 75
              ELSE IF followers >= 1000 THEN 60
              ELSE IF followers >= 100 THEN 40
              ELSE 0
        s2 == IF stars >= 1000 THEN Max(s1, 85)
              ELSE IF stars >= 100 THEN Max(s1, 70)
              ELSE IF stars >= 50 THEN Max(s1, 55)
              ELSE IF stars >= 10 THEN Max(s1, 35)
              ELSE s1
        s3 == IF \E w \in {"enterprise", "corporation", "inc.", "ltd.", "llc"} :
                    has(content, w)
              THEN Max(s2, 60) ELSE s2
        s4 == IF \E w \in {"team of", "employees", "staff", "founded"} :
                    has(content, w)
              THEN Max(s3, 45) ELSE s3
    IN  IF s4 = 0 /\ Len(rs) > 0 THEN 25 ELSE s4

_score_recency(rs) ==
    LET content == _extract_all_content(rs)
        recent_matches ==
            matches(content, {"recent", "latest", "new", "updated", "last week",
                              "last month", "yesterday", "today", "2024", "2025"})
        has_recent_posts ==
            \E w \in {"recent tweet", "recent video", "recent post", "latest video"} :
                has(content, w)
        has_recent_content ==
            \E w \in {"recent:", "published:", "updated:"} : has(content, w)
    IN  IF has_recent_posts THEN 85
        ELSE IF has_recent_content THEN 70
        ELSE IF recent_matches >= 3 THEN 60
        ELSE IF recent_matches >= 2 THEN 45
        ELSE IF recent_matches >= 1 THEN 30
        ELSE 10

\* round(num / den) of Python: to the nearest integer, a tie to the even one
round(num, den) ==
    LET q == num \div den
        r == num % den
    IN  IF 2 * r < den THEN q
        ELSE IF 2 * r > den THEN q + 1
        ELSE IF q % 2 = 0 THEN q ELSE q + 1

RECURSIVE total_key_points(_)
total_key_points(rs) ==
    IF rs = << >> THEN 0
    ELSE Len(get_list(Head(rs).key_points).items)
           + total_key_points(Tail(rs))

\* _score_data_quality; avg_key_points >= k is total >= k * len
_score_data_quality(successful_results, all_results) ==
    IF all_results = << >> THEN 0
    ELSE LET num_sources == Len(successful_results)
             total == total_key_points(successful_results)
             n == Max(1, num_sources)
             diversity == IF num_sources >= 3 THEN 30
                          ELSE IF num_sources = 2 THEN 20
                          ELSE IF num_sources = 1 THEN 10
                          ELSE 0
             richness == IF total >= 4 * n THEN 30
                         ELSE IF total >= 3 * n THEN 25
                         ELSE IF total >= 2 * n THEN 20
                         ELSE IF total >= n THEN 15
                         ELSE 5
         IN  Min(100, round(num_sources * 40
                              + (diversity + richness) * Len(all_results),
                            Len(all_results)))

\* one note of the score notes: its text and the number formatted into it
Note(text, num) == [text |-> text, num |-> num]

\* notes[:5]
Take(seq, k) == SubSeq(seq, 1, Min(Len(seq), k))

\* _generate_score_notes: the notes that "; ".join puts together
_generate_score_notes(relevance_score, rs) ==
    LET content == _extract_all_content(rs)
        followers == _extract_follower_count(content)
        stars == _extract_github_stars(content)
        notes ==
            (IF relevance_score >= 75 THEN << Note("High service relevance", 0) >>
             ELSE IF relevance_score >= 50 THEN << Note("Moderate service relevance", 0) >>
             ELSE << >>)
            \o (IF has(content, "pricing") \/ has(content, "plans")
                THEN << Note("Pricing page found", 0) >> ELSE << >>)
            \o (IF has(content, "contact sales")
                THEN << Note("Sales contact available", 0) >> ELSE << >>)
            \o (IF has(content, "hiring")
                THEN << Note("Currently hiring", 0) >> ELSE << >>)
            \o (IF followers >= 10000 THEN << Note("Large following", followers) >>
                ELSE IF followers >= 1000 THEN << Note("Good following", followers) >>
                ELSE << >>)
            \o (IF stars >= 100 THEN << Note("Popular projects", stars) >> ELSE << >>)
            \o (IF has(content, "recent")
                THEN << Note("Recent activity detected", 0) >> ELSE << >>)
            \o (IF Len(rs) >= 3
                THEN << Note("Multiple data sources", Len(rs)) >> ELSE << >>)
    IN  IF notes = << >> THEN << Note("Basic lead profile", 0) >> ELSE Take(notes, 5)

\* [r for r in urs if r.get('status') == 'OK'] raises AttributeError
\* on an entry that is None
filter_raises(urs) ==
    \E i \in 1..Len(urs) : ~urs[i].dict

successful_results(urs) ==
    SelectSeq(urs, LAMBDA r : r.status = "OK")

\* the five component scores of calculate_score
components(urs) ==
    LET ok == successful_results(urs)
    IN  [relevance       |-> _score_relevance(ok),
         purchase_intent |-> _score_purchase_intent(ok),
         authority       |-> _score_authority(ok),
         recency         |-> _score_recency(ok),
         data_quality    |-> _score_data_quality(ok, urs)]

NoComponents ==
    [relevance |-> 0, purchase_intent |-> 0, authority |-> 0, recency |-> 0,
     data_quality |-> 0]

\* (relevance_score * weights['relevance'] + ...) before the division by 100
weighted_sum(c) ==
    c.relevance * weights.relevance
    + c.purchase_intent * weights.purchase_intent
    + c.authority * weights.authority
    + c.recency * weights.recency
    + c.data_quality * weights.data_quality

\* calculate_score without its try/except: the exception leaves the call
calculate_score_mut(urs) ==
    IF filter_raises(urs)
       \/ extend_raises(successful_results(urs))
    THEN [raised |-> TRUE, path |-> "error", score |-> 0, notes |-> << >>,
          components |-> NoComponents]
    ELSE IF successful_results(urs) = << >>
    THEN [raised |-> FALSE, path |-> "empty", score |-> 0,
          notes |-> << Note("No successful data collection", 0) >>,
          components |-> NoComponents]
    ELSE [raised |-> FALSE, path |-> "scored",
          score |-> Min(100, Max(0, round(weighted_sum(components(urs)), 100))),
          notes |-> _generate_score_notes(components(urs).relevance,
                                          successful_results(urs)),
          components |-> components(urs)]

\* calculate_score: what it returns, which of its paths it took and the
\* component scores it computed
calculate_score(urs) ==
    IF filter_raises(urs)
       \/ extend_raises(successful_results(urs))
    THEN [raised |-> FALSE, path |-> "error", score |-> 0,
          notes |-> << Note("Scoring error", 0) >>, components |-> NoComponents]
    ELSE IF successful_results(urs) = << >>
    THEN [raised |-> FALSE, path |-> "empty", score |-> 0,
          notes |-> << Note("No successful data collection", 0) >>,
          components |-> NoComponents]
    ELSE [raised |-> FALSE, path |-> "scored",
          score |-> Min(100, Max(0, round(weighted_sum(components(urs)), 100))),
          notes |-> _generate_score_notes(components(urs).relevance,
                                          successful_results(urs)),
          components |-> components(urs)]

\* ----------------------------------------------- summaries and report
\* config.get('MAX_CELL_CHARS', 4000) and config.get('MAX_COMBINED_CHARS', 5000)
MAX_CELL_CHARS == 4000

MAX_COMBINED_CHARS == 5000

\* a text of a handler result: which text it is, its len() and whether it
\* holds 'pricing' or 'contact'
Text(id, len, sales) == [id |-> id, len |-> len, sales |-> sales]

\* len() of the fixed texts of the summary and of the report
FixedLen ==
    [source |-> 12, url |-> 9, key_points |-> 15, bullet |-> 2, signals |-> 25,
     last_checked |-> 18, snapshot |-> 21, pain |-> 31, angle |-> 26,
     outreach |-> 48, reference |-> 50, qualified |-> 50, sources |-> 17,
     more |-> 9, comma |-> 2]

RECURSIVE SumSeq(_)
SumSeq(nums) == IF nums = << >> THEN 0 ELSE Head(nums) + SumSeq(Tail(nums))

\* len("\n".join(lines)) from the len() of the lines
joined_len(lines) == IF lines = << >> THEN 0 ELSE SumSeq(lines) + Len(lines) - 1

\* len(text[:k]) of a text of len() n
slice_len(n, k) == IF k >= 0 THEN Min(n, k) ELSE Max(0, n + k)

\* text[:max_chars - 3] + "..." when the text is longer than max_chars
truncated_len(n, max_chars) ==
    IF n > max_chars THEN slice_len(n, max_chars - 3) + 3 ELSE n

\* format_summary without the truncation
format_summary_mut(data) ==
    joined_len(
        << FixedLen.source + data.source.len, FixedLen.url + data.url_len >>
        \o (IF data.key_points # << >>
            THEN << FixedLen.key_points >>
                 \o [i \in 1..Min(Len(data.key_points), 6) |->
                        FixedLen.bullet + data.key_points[i].len]
            ELSE << >>)
        \o (IF data.signals # << >>
            THEN << FixedLen.signals >>
                 \o [i \in 1..Min(Len(data.signals), 4) |->
                        FixedLen.bullet + data.signals[i].len]
            ELSE << >>)
        \o << FixedLen.last_checked + data.last_checked_len >>)

\* len() of format_summary(data)
format_summary(data) ==
    truncated_len(joined_len(
        << FixedLen.source + data.source.len, FixedLen.url + data.url_len >>
        \o (IF data.key_points # << >>
            THEN << FixedLen.key_points >>
                 \o [i \in 1..Min(Len(data.key_points), 6) |->
                        FixedLen.bullet + data.key_points[i].len]
            ELSE << >>)
        \o (IF data.signals # << >>
            THEN << FixedLen.signals >>
                 \o [i \in 1..Min(Len(data.signals), 4) |->
                        FixedLen.bullet + data.signals[i].len]
            ELSE << >>)
        \o << FixedLen.last_checked + data.last_checked_len >>), MAX_CELL_CHARS)

\* the key insights: the first two key points of every OK result that are
\* longer than ten characters
RECURSIVE key_insights(_)
key_insights(urs) ==
    IF urs = << >> THEN << >>
    ELSE (IF Head(urs).status = "OK"
          THEN SelectSeq(Take(Head(urs).key_points, 2), LAMBDA t : t.len > 10)
          ELSE << >>)
         \o key_insights(Tail(urs))

RECURSIVE all_signals(_)
all_signals(urs) ==
    IF urs = << >> THEN << >>
    ELSE (IF Head(urs).status = "OK" THEN Head(urs).signals ELSE << >>)
         \o all_signals(Tail(urs))

\* list(dict.fromkeys(texts)): the first occurrence of every text, in order
RECURSIVE unique(_)
unique(texts) ==
    IF texts = << >> THEN << >>
    ELSE LET init == unique(SubSeq(texts, 1, Len(texts) - 1))
             last == texts[Len(texts)]
         IN  IF \E i \in 1..Len(init) : init[i] = last
             THEN init ELSE Append(init, last)

\* len(", ".join(source_list)): the sources of the OK results and "(+k more)"
source_list_len(urs) ==
    LET sources == {urs[i].source : i \in {j \in 1..Len(urs) : urs[j].status = "OK"}}
        n == Cardinality(sources)
        lens == SumSeq([i \in 1..Len(urs) |->
                    IF urs[i].status = "OK"
                       /\ \A j \in 1..(i - 1) :
                            urs[j].status = "OK" => urs[j].source # urs[i].source
                    THEN urs[i].source.len ELSE 0])
        entries == IF Len(urs) > n THEN n + 1 ELSE n
    IN  lens + (IF Len(urs) > n THEN FixedLen.more ELSE 0)
             + (IF entries > 0 THEN FixedLen.comma * (entries - 1) ELSE 0)

\* len() of _generate_combined_report(url_results)
_generate_combined_report(urs) ==
    LET insights == Take(key_insights(urs), 4)
        sigs == Take(unique(all_signals(urs)), 6)
    IN  truncated_len(joined_len(
            << FixedLen.snapshot >>
            \o [i \in 1..Len(insights) |-> FixedLen.bullet + insights[i].len]
            \o << 0, FixedLen.pain >>
            \o [i \in 1..Len(sigs) |-> FixedLen.bullet + sigs[i].len]
            \o << 0, FixedLen.angle, FixedLen.outreach, FixedLen.reference >>
            \o (IF \E i \in 1..Len(all_signals(urs)) : all_signals(urs)[i].sales
                THEN << FixedLen.qualified >> ELSE << >>)
            \o << 0, FixedLen.sources, source_list_len(urs) >>), MAX_COMBINED_CHARS)

\* ---------------------------------------------------------------- state
\* ------------------------------------------- non_destructive_enricher
ENRICH_PREFIX == "Enrich::"

MAX_COLUMNS == 60

COLUMN_SAFETY_MARGIN == 5

MAX_FIELD_LENGTH == 1000

MAX_REPORT_LENGTH == 20000

\* a header text: its prefix ("Enrich::" or none) and what follows it
EnrichHeader(name) == Hdr(ENRICH_PREFIX, name, 0)

\* the user header "Column_<i>"
UserHeader(i) == Hdr("", "Column_", i)

REQUIRED_ENRICH_HEADERS ==
    << EnrichHeader("Row Key"), EnrichHeader("Primary URL"),
       EnrichHeader("All URLs (|)"), EnrichHeader("Page Title"),
       EnrichHeader("Meta Description"), EnrichHeader("About / Summary"),
       EnrichHeader("Contacts (emails|phones)"),
       EnrichHeader("Social Profiles (|)"), EnrichHeader("Tech / Stack (|)"),
       EnrichHeader("Locations (|)"), EnrichHeader("Employees (approx.)"),
       EnrichHeader("Revenue (approx.)"), EnrichHeader("Industry / Tags (|)"),
       EnrichHeader("Key Findings (| bullets)"), EnrichHeader("Risks (|)"),
       EnrichHeader("Opportunities (|)"), EnrichHeader("Confidence (0-100)"),
       EnrichHeader("Final Report (Markdown)"), EnrichHeader("Source Count"),
       EnrichHeader("Scrape Status"), EnrichHeader("Enrichment Status"),
       EnrichHeader("Last Enriched At (UTC)"),
       EnrichHeader("Processor Version"), EnrichHeader("Schema Version"),
       EnrichHeader("Error (last run)"), EnrichHeader("Retry Count"),
       EnrichHeader("Runtime (ms)") >>

OPTIONAL_ENRICH_HEADERS ==
    { EnrichHeader("Employees (approx.)"), EnrichHeader("Revenue (approx.)"),
      EnrichHeader("Locations (|)"), EnrichHeader("Industry / Tags (|)"),
      EnrichHeader("Tech / Stack (|)") }

\* the dict built by the scan of current_headers: a later column of the
\* same text replaces an earlier one
existing_enrich_columns(current_headers) ==
    LET found == {i \in 1..Len(current_headers) :
                    startswith(current_headers[i], ENRICH_PREFIX)}
    IN  [h \in {current_headers[i] : i \in found} |->
            SetMax({i \in found : current_headers[i] = h}) - 1]

\* the loop over REQUIRED_ENRICH_HEADERS from its i-th header on, acc the
\* headers_to_add so far
RECURSIVE headers_to_add_mut(_, _, _, _)
headers_to_add_mut(enrich_columns, total_columns, i, acc) ==
    IF i > Len(REQUIRED_ENRICH_HEADERS) THEN acc
    ELSE LET header == REQUIRED_ENRICH_HEADERS[i]
         IN  IF header \in DOMAIN enrich_columns
             THEN headers_to_add_mut(enrich_columns, total_columns, i + 1, acc)
             ELSE IF /\ total_columns + Len(acc) >= MAX_COLUMNS - COLUMN_SAFETY_MARGIN
                     /\ header \notin OPTIONAL_ENRICH_HEADERS
                  THEN headers_to_add_mut(enrich_columns, total_columns, i + 1, acc)
                  ELSE headers_to_add_mut(enrich_columns, total_columns, i + 1,
                                          Append(acc, header))

RECURSIVE headers_to_add(_, _, _, _)
headers_to_add(enrich_columns, total_columns, i, acc) ==
    IF i > Len(REQUIRED_ENRICH_HEADERS) THEN acc
    ELSE LET header == REQUIRED_ENRICH_HEADERS[i]
         IN  IF header \in DOMAIN enrich_columns
             THEN headers_to_add(enrich_columns, total_columns, i + 1, acc)
             ELSE IF /\ total_columns + Len(acc) >= MAX_COLUMNS - COLUMN_SAFETY_MARGIN
                     /\ header \in OPTIONAL_ENRICH_HEADERS
                  THEN headers_to_add(enrich_columns, total_columns, i + 1, acc)
                  ELSE headers_to_add(enrich_columns, total_columns, i + 1,
                                      Append(acc, header))

\* ensure_enrichment_headers(existing_headers) of an enricher with the given
\* dry_run; outcome is what the values().update call does ("ok" or "raise")
ensure_enrichment_headers(existing_headers, dry_run, outcome) ==
    LET current_headers == existing_headers
        found == existing_enrich_columns(current_headers)
        to_add == headers_to_add(found, Len(current_headers), 1, << >>)
        start_col == Len(current_headers)
        writes == to_add # << >> /\ ~dry_run
        raised == writes /\ outcome = "raise"
        added == [h \in {to_add[i] : i \in 1..Len(to_add)} |->
                    start_col + (CHOOSE i \in 1..Len(to_add) : to_add[i] = h) - 1]
    IN  [called |-> TRUE,
         dry_run |-> dry_run,
         existing |-> existing_headers,
         raised |-> raised,
         wrote |-> writes /\ ~raised,
         headers_to_add |-> to_add,
         enrich_columns |-> IF raised THEN << >>
                            ELSE [h \in DOMAIN found \cup DOMAIN added |->
                                    IF h \in DOMAIN added THEN added[h] ELSE found[h]],
         total_columns |-> IF raised THEN Len(current_headers)
                           ELSE Len(current_headers) + Len(to_add),
         after |-> IF writes /\ ~raised THEN current_headers \o to_add
                   ELSE current_headers]

\* a text as its runs of characters: ch " " is a run of whitespace, any
\* other ch a run of n characters that are not whitespace
Run(ch, n) == [ch |-> ch, n |-> n]

RECURSIVE runs_len(_)
runs_len(text) ==
    IF text = << >> THEN 0 ELSE Head(text).n + runs_len(Tail(text))

\* text[:k]
RECURSIVE slice(_, _)
slice(text, k) ==
    IF text = << >> \/ k <= 0 THEN << >>
    ELSE IF Head(text).n <= k
         THEN << Head(text) >> \o slice(Tail(text), k - Head(text).n)
         ELSE << Run(Head(text).ch, k) >>

\* "... [truncated]"
truncated_marker == << Run("...", 3), Run(" ", 1), Run("[truncated]", 11) >>

_truncate_mut(text, max_length) ==
    IF runs_len(text) = 0 THEN << >>
    ELSE IF runs_len(text) <= max_length THEN text
    ELSE slice(text, max_length - 15) \o truncated_marker

\* _truncate(text, max_length)
_truncate(text, max_length) ==
    IF runs_len(text) = 0 THEN << >>
    ELSE IF runs_len(text) <= max_length THEN text
    ELSE slice(text, max_length - 12) \o truncated_marker

\* value.split(): the words of the text, a word being the runs between two
\* stretches of whitespace
RECURSIVE split_lens(_, _)
split_lens(text, word) ==
    IF text = << >> THEN (IF word > 0 THEN << word >> ELSE << >>)
    ELSE IF Head(text).ch = " " /\ Head(text).n > 0
         THEN (IF word > 0 THEN << word >> ELSE << >>) \o split_lens(Tail(text), 0)
         ELSE split_lens(Tail(text), word + Head(text).n)

\* len(" ".join(value.split())) for a value that is not empty
normalized_len(value) ==
    LET words == split_lens(value, 0)
    IN  IF runs_len(value) = 0 THEN 0
        ELSE SumSeq(words) + (IF Len(words) > 0 THEN Len(words) - 1 ELSE 0)

\* the text fields process_row fills from a scraped page
process_row_fields(title, meta_description, report) ==
    [page_title |-> _truncate(title, MAX_FIELD_LENGTH),
     meta_description |-> _truncate(meta_description, MAX_FIELD_LENGTH),
     final_report |-> report]

\* len() of the text fields of map_result_to_columns(result)
map_result_to_columns(result) ==
    [page_title |-> normalized_len(result.page_title),
     meta_description |-> normalized_len(result.meta_description),
     final_report |-> normalized_len(_truncate(result.final_report, MAX_REPORT_LENGTH))]

\* ------------------------------------- link_intelligence_orchestrator
AX_COLUMN_INDEX == 49

\* config.get('DAILY_LINK_LIMIT' ...) is drawn by InitLink; the other
\* settings keep their defaults
max_links_per_row == 10

force_refresh == FALSE

\* a cell holding the URL u, already in normalized form
UrlCell(u) == Hdr("url", "https://example.com/", u)

\* a cell holding text without a URL
TextCell(kind, i) == Hdr("", kind, i)

\* discover_links_in_row: the URLs of the cells in order, deduplicated,
\* at most max_links_per_row of them
RECURSIVE unique_links(_, _)
unique_links(cells, seen) ==
    IF cells = << >> THEN << >>
    ELSE IF Head(cells).ns = "url" /\ Head(cells) \notin seen
         THEN << Head(cells) >> \o unique_links(Tail(cells), seen \cup {Head(cells)})
         ELSE unique_links(Tail(cells), seen)

discover_links_in_row(cells) ==
    LET found == unique_links(cells, {})
    IN  SubSeq(found, 1, Min(Len(found), max_links_per_row))

\* processing_ledger[key] = status
ledger_set(ledger, key, status) ==
    [k \in DOMAIN ledger \cup {key} |-> IF k = key THEN status ELSE ledger[k]]

\* the loop of process_row over links from the i-th on; outs[i] tells whether
\* searching and scraping link i returns or raises; acc holds
\* links_processed_today, the ledger, all_link_intel and, for every link
\* searched, the value of links_processed_today when its search began
RECURSIVE process_links_mut(_, _, _, _, _, _)
process_links_mut(ri, links, outs, limit, i, acc) ==
    IF i > Len(links) THEN acc
    ELSE IF acc.links_processed_today > limit THEN acc
    ELSE LET ledger_key == << ri, links[i] >>
         IN  IF /\ ledger_key \in DOMAIN acc.ledger
                /\ ~force_refresh
                /\ acc.ledger[ledger_key] = "done"
             THEN process_links_mut(ri, links, outs, limit, i + 1, acc)
             ELSE process_links_mut(ri, links, outs, limit, i + 1,
                    [links_processed_today |->
                        acc.links_processed_today + (IF outs[i] = "ok" THEN 1 ELSE 0),
                     ledger |-> ledger_set(acc.ledger, ledger_key,
                                           IF outs[i] = "ok" THEN "done" ELSE "error"),
                     all_link_intel |-> Append(acc.all_link_intel,
                                               [url |-> links[i], outcome |-> outs[i]]),
                     searched_at |-> Append(acc.searched_at, acc.links_processed_today)])

RECURSIVE process_links(_, _, _, _, _, _)
process_links(ri, links, outs, limit, i, acc) ==
    IF i > Len(links) THEN acc
    ELSE IF acc.links_processed_today >= limit THEN acc
    ELSE LET ledger_key == << ri, links[i] >>
         IN  IF /\ ledger_key \in DOMAIN acc.ledger
                /\ ~force_refresh
                /\ acc.ledger[ledger_key] = "done"
             THEN process_links(ri, links, outs, limit, i + 1, acc)
             ELSE process_links(ri, links, outs, limit, i + 1,
                    [links_processed_today |->
                        acc.links_processed_today + (IF outs[i] = "ok" THEN 1 ELSE 0),
                     ledger |-> ledger_set(acc.ledger, ledger_key,
                                           IF outs[i] = "ok" THEN "done" ELSE "error"),
                     all_link_intel |-> Append(acc.all_link_intel,
                                               [url |-> links[i], outcome |-> outs[i]]),
                     searched_at |-> Append(acc.searched_at, acc.links_processed_today)])

\* column_headers of write_enrichment_to_sheet for n links
RECURSIVE link_headers(_, _)
link_headers(i, n) ==
    IF i > n THEN << >>
    ELSE << Hdr("L", "URL", i), Hdr("L", "Search Summary", i),
            Hdr("L", "Scrape Summary", i) >> \o link_headers(i + 1, n)

arp_headers ==
    << Hdr("ARP: ", "Primary Domain", 0), Hdr("ARP: ", "Company Name", 0),
       Hdr("ARP: ", "Category/Industry", 0), Hdr("ARP: ", "Country/Region", 0),
       Hdr("ARP: ", "Tech Stack Highlights", 0), Hdr("ARP: ", "Contact Channels", 0),
       Hdr("ARP: ", "Pricing/Plans Presence", 0), Hdr("ARP: ", "Recent Activity", 0),
       Hdr("ARP: ", "LinkedIn Presence", 0), Hdr("ARP: ", "Notes", 0) >>

column_headers(n, arp) ==
    link_headers(1, n)
    \o << Hdr("", "Final Report (All Links)", 0), Hdr("", "Lead Score (0-100)", 0) >>
    \o (IF arp THEN arp_headers ELSE << >>)

\* columns_to_write: the URL itself, then texts that hold no URL
RECURSIVE link_values(_, _)
link_values(all_link_intel, i) ==
    IF i > Len(all_link_intel) THEN << >>
    ELSE << all_link_intel[i].url, TextCell("search summary", i),
            TextCell("scrape summary", i) >> \o link_values(all_link_intel, i + 1)

columns_to_write(all_link_intel, arp) ==
    link_values(all_link_intel, 1)
    \o << TextCell("final report", 0), TextCell("lead score", 0) >>
    \o (IF arp THEN [i \in 1..Len(arp_headers) |-> TextCell("arp", i)] ELSE << >>)

\* _find_empty_columns_after_ax: indices are 0-based, headers[i] of the code
\* is headers[i + 1] here
_find_empty_columns_after_ax(headers) ==
    LET start_check == AX_COLUMN_INDEX + 1
        empty == {i \in start_check..(Len(headers) - 1) :
                    ~truthy(headers[i + 1]) \/ strip(headers[i + 1]) = Blank}
    IN  IF empty # {} THEN SetMin(empty) ELSE Max(Len(headers), start_check)

_headers_exist(current_headers, wanted, start_col) ==
    \A i \in 0..(Len(wanted) - 1) :
        /\ start_col + i < Len(current_headers)
        /\ current_headers[start_col + i + 1] = wanted[i + 1]

\* any(row_data)
any(cells) == {i \in 1..Len(cells) : truthy(cells[i])} # {}

\* the cell of the sheet at a 0-based row and column, '' where none is
cell_at(sheet, row, col) ==
    IF row + 1 <= Len(sheet) /\ col + 1 <= Len(sheet[row + 1])
    THEN sheet[row + 1][col + 1] ELSE Blank

\* values().update of one row range: the cells from start_col on take the
\* values, the sheet grows as far as needed
update_range(sheet, row, start_col, values) ==
    [r \in 1..Max(Len(sheet), row + 1) |->
        IF r # row + 1 THEN (IF r <= Len(sheet) THEN sheet[r] ELSE << >>)
        ELSE [c \in 1..Max(IF r <= Len(sheet) THEN Len(sheet[r]) ELSE 0,
                            start_col + Len(values)) |->
                IF c > start_col /\ c <= start_col + Len(values)
                THEN values[c - start_col]
                ELSE cell_at(sheet, row, c - 1)]]

\* the cells a range covers
range_cells(row, start_col, values) ==
    {[row |-> row, col |-> start_col + i - 1] : i \in 1..Len(values)}

\* write_enrichment_to_sheet of row ri with the sheet_data read by run(), on the
\* sheet as it is now; outcome tells which update call raises, if any
write_enrichment_to_sheet(sheet, data, ri, all_link_intel, arp, outcome) ==
    LET headers == IF data # << >> THEN data[1] ELSE << >>
        start_col == _find_empty_columns_after_ax(headers)
        wanted == column_headers(Len(all_link_intel), arp)
        values == columns_to_write(all_link_intel, arp)
        needs_headers == ri = 1 \/ ~_headers_exist(headers, wanted, start_col)
        headers_written == needs_headers /\ outcome # "headers_raise"
        row_written == outcome = "ok"
        with_headers == IF headers_written
                        THEN update_range(sheet, 0, start_col, wanted) ELSE sheet
    IN  [start_col |-> start_col,
         needs_headers |-> needs_headers,
         headers_written |-> headers_written,
         returned |-> outcome = "ok",
         cells |-> (IF headers_written THEN range_cells(0, start_col, wanted) ELSE {})
                   \cup (IF row_written THEN range_cells(ri, start_col, values) ELSE {}),
         sheet |-> IF row_written
                   THEN update_range(with_headers, ri, start_col, values)
                   ELSE with_headers]

\* ------------------------------------------------ generate_final_report
\* one entry of all_link_intel: which of the fields generate_final_report
\* looks at are present and truthy
LinkIntel(category, tech_signals, contact_capture, pricing_cta, social_links,
          linkedin_presence, crunchbase_presence, freshness_current,
          size_signals, value_proposition, error_bullet) ==
    [category |-> category, tech_signals |-> tech_signals,
     contact_capture |-> contact_capture, pricing_cta |-> pricing_cta,
     social_links |-> social_links, linkedin_presence |-> linkedin_presence,
     crunchbase_presence |-> crunchbase_presence,
     freshness_current |-> freshness_current, size_signals |-> size_signals,
     value_proposition |-> value_proposition, error_bullet |-> error_bullet]

\* the bullets a condition contributes
bullet_if(cond, bullet) == IF cond THEN << bullet >> ELSE << >>

\* the list called bullets before the padding step
report_bullets(intel) ==
    LET some(field) == {i \in 1..Len(intel) : intel[i][field]} # {}
    IN  << "Analyzed" >>
        \o bullet_if(some("category"), "Industries")
        \o bullet_if(some("tech_signals"), "Technologies")
        \o bullet_if(some("contact_capture"), "Contact methods")
        \o bullet_if(some("pricing_cta"), "Commercial")
        \o bullet_if(some("social_links"), "Social presence")
        \o bullet_if(some("linkedin_presence") \/ some("crunchbase_presence"),
                     "Professional networks")
        \o bullet_if(some("freshness_current"), "Site freshness")
        \o bullet_if(some("size_signals"), "Size indicators")
        \o bullet_if(some("value_proposition"), "Value prop")
        \o bullet_if(some("error_bullet"), "Issues")

\* generate_final_report(all_link_intel): the bullets of the report
generate_final_report(intel) ==
    LET bullets == report_bullets(intel)
        padded == IF Len(bullets) < 6
                  THEN Append(bullets, "Additional analysis may be needed")
                  ELSE bullets
    IN  SubSeq(padded, 1, Min(Len(padded), 12))

\* ------------------------------------------------ _apply_rate_limiting
\* self.per_domain_delay = 1.0 / config.get('PER_DOMAIN_RPS', 0.2), in seconds
per_domain_delay == 5

\* the sleep_time of a call for the domain at time now (0: no sleep)
sleep_time(last_request, domain, now) ==
    IF domain \in DOMAIN last_request
    THEN (IF now - last_request[domain] < per_domain_delay
          THEN per_domain_delay - (now - last_request[domain])
          ELSE 0)
    ELSE 0

\* self.domain_last_request[domain] = now, the time read before the sleep
record_request(last_request, domain, now) ==
    [d \in DOMAIN last_request \cup {domain} |->
        IF d = domain THEN now ELSE last_request[d]]

\* ----------------------------------------------- scrape_url_with_retry
\* a URL as urlparse splits it: the scheme and the netloc, '' where absent
Url(scheme, netloc) == [scheme |-> scheme, netloc |-> netloc]

\* validate_url: all([result.scheme, result.netloc])
validate_url_mut(url) == url.scheme # ""

validate_url(url) == url.scheme # "" /\ url.netloc # ""

\* get_platform_config(url).get('max_retries', 3)
max_retries(url) ==
    CASE url.netloc = "linkedin.com" -> 2
      [] url.netloc = "facebook.com" -> 1
      [] url.netloc = "x.com"        -> 2
      [] OTHER                       -> 3

\* get_request_delay(url), in half seconds
get_request_delay(url) ==
    CASE url.netloc = "linkedin.com" -> 6
      [] url.netloc = "facebook.com" -> 8
      [] url.netloc = "x.com"        -> 4
      [] OTHER                       -> 3

\* what session.get and the parsing of its response can come to: a status
\* code, a 200 whose content cannot be parsed, or an exception
Responses == {"200", "200 unparsable", "999", "403", "429", "404", "500",
              "Timeout", "RequestException", "Exception"}

RECURSIVE pow2(_)
pow2(n) == IF n = 0 THEN 1 ELSE 2 * pow2(n - 1)

\* one pass of the loop for attempt att: the status returned, or "" and the
\* wait_time slept before the next pass
attempt_outcome(url, att, response) ==
    LET delay == get_request_delay(url)
        retry(wait_time, status) ==
            IF att < max_retries(url)
            THEN [status |-> "", wait_time |-> wait_time]
            ELSE [status |-> status, wait_time |-> 0]
        return(status) == [status |-> status, wait_time |-> 0]
    IN  CASE response = "200"                -> return("success")
          [] response = "200 unparsable"     -> return("failed")
          [] response = "999"                -> return("blocked")
          [] response \in {"403", "429"}     -> retry(delay * pow2(att), "blocked")
          [] response = "404"                -> return("not_found")
          [] response = "500"                -> retry(delay, "failed")
          [] response \in {"Timeout", "RequestException"} -> retry(delay, "failed")
          [] OTHER                           -> return("failed")

\* ------------------------------------------------------ utils/cache.py
\* CacheManager.__init__: default_ttl, 24 hours in seconds
default_ttl == 86400

\* the ttl argument of set: Optional[int], None by default
NoTtl == [given |-> FALSE, seconds |-> 0]

Ttl(seconds) == [given |-> TRUE, seconds |-> seconds]

\* the cache file of a key: not there, not readable as the JSON object set
\* writes, or the entry set wrote
NoFile == [state |-> "missing", value |-> "", expires_at |-> 0]

CorruptFile == [state |-> "corrupt", value |-> "", expires_at |-> 0]

Entry(value, expires_at) ==
    [state |-> "entry", value |-> value, expires_at |-> expires_at]

\* get, the TTL check: cache_data.get('expires_at', 0) < time.time()
expired_mut(cache_data, now) == FALSE

expired(cache_data, now) == cache_data.expires_at < now

\* get: the try block gives a value, None or an exception (json.load of a
\* corrupted file); 'except Exception' turns the exception into None
get(file, now) ==
    LET try ==
            IF file.state = "missing"
            THEN [exc |-> FALSE, none |-> TRUE, returned |-> "", file |-> file]
            ELSE IF file.state = "corrupt"
            THEN [exc |-> TRUE, none |-> FALSE, returned |-> "", file |-> file]
            ELSE IF expired(file, now)
            THEN [exc |-> FALSE, none |-> TRUE, returned |-> "", file |-> NoFile]
            ELSE [exc |-> FALSE, none |-> FALSE, returned |-> file.value,
                  file |-> file]
    IN  IF try.exc
        THEN [raised |-> FALSE, none |-> TRUE, returned |-> "", file |-> try.file]
        ELSE [raised |-> FALSE, none |-> try.none, returned |-> try.returned,
              file |-> try.file]

\* set: the try block writes the entry, or open() fails and the file stays
\* as it was, or json.dump fails after open(..., 'w') truncated the file;
\* 'except Exception' logs the exception and set returns
set(file, value, ttl, now, outcome) ==
    LET ttl_used == IF ~ttl.given THEN default_ttl ELSE ttl.seconds
        try ==
            CASE outcome = "written" ->
                    [exc |-> FALSE, file |-> Entry(value, now + ttl_used)]
              [] outcome = "open fails" ->
                    [exc |-> TRUE, file |-> file]
              [] OTHER ->
                    [exc |-> TRUE, file |-> CorruptFile]
    IN  [raised |-> FALSE, stored |-> ~try.exc, file |-> try.file]

VARIABLES
    namespace,      \* config['HEADER_NAMESPACE']
    sheetHeaders,   \* row 1 of the worksheet
    prevCall,       \* the setup_managed_columns call before the last one
    lastCall,       \* the last setup_managed_columns call
    headerWrites,   \* number of update_headers calls so far
    urlHeader,      \* header of the column the cell under extraction is in
    cellItems,      \* the texts the cell was typed from, in order
    cellSep,        \* the separator typed between them
    urlPc,          \* "input", "extracted", "row", "again" or "off"
    cellUrls,       \* result of _extract_urls_from_cell
    dedupIn,        \* the normalized URLs handed to _deduplicate_urls
    rowUrls,        \* result of extract_urls_from_row
    rowUrls2,       \* _deduplicate_urls applied to rowUrls
    dataRows,       \* the rows below the header row, as get_all_data reads them
    dryRun,         \* the dry_run argument of process_sheet
    pc,             \* where process_sheet is: "start", "rows", "done", "failed", "off"
    runHeaders,     \* headers = all_data[0] of the run
    managedCols,    \* managed_columns of the run
    rowIdx,         \* i of the loop over process_rows
    results,        \* the counters process_sheet returns
    cellWrites,     \* number of update_cells calls that reached the sheet
    written,        \* the cells written by update_cells
    lastRow,        \* the row processed last and its row_result
    useCache,       \* the use_cache argument of process_sheet
    cache,          \* the unexpired handler results of the CacheManager, by URL
    onlyNew,        \* the only_new argument of process_sheet
    processRows,    \* process_rows, as positions in dataRows
    scoreInput,     \* the url_results handed to calculate_score
    scoreCalls,     \* the calculate_score calls made: instance and outcome
    reportInput,    \* the url_results handed to _generate_row_updates
    reportOut,      \* len() of the summaries and of the combined report
    ndeSheet,       \* row 1 of the sheet of the NonDestructiveEnricher
    ndeDryRun,      \* self.dry_run of the NonDestructiveEnricher
    ensureCalls,    \* number of ensure_enrichment_headers calls so far
    lastEnsure,     \* the last ensure_enrichment_headers call
    ndeMapped,      \* the map_result_to_columns call: its result and len()s
    userSheet,      \* the sheet as the user left it, before any run
    linkSheet,      \* the sheet of the LinkIntelligenceOrchestrator as it is now
    daily_link_limit,       \* self.daily_link_limit
    arp_mode,               \* self.arp_mode
    linkPc,                 \* where run() is: "idle", "rows" or "done"
    linkRuns,               \* number of runs started so far
    reruns,                 \* whether the program is started again on the sheet
    sheet_data,             \* sheet_data as run() read it
    row_index,              \* row_index of the row loop of run()
    links_processed_today,  \* self.links_processed_today
    processing_ledger,      \* self.processing_ledger
    runStartCols,           \* per run, the start_col of its writes (-1: none yet)
    lastLinkRow,            \* the row processed last and what was done for it
    reportIntel,    \* the all_link_intel handed to generate_final_report
    finalReport,    \* the bullets of the report generate_final_report returned
    reportDone,     \* whether generate_final_report was called
    rateNow,        \* the time of the event loop, in seconds
    domain_last_request,    \* self.domain_last_request
    requestStarts,  \* per domain, the times handler.process was started
    rateCalls,      \* number of _apply_rate_limiting calls so far
    scrapeUrl,      \* the url handed to scrape_url_with_retry
    attempt,        \* attempt of the loop of scrape_url_with_retry
    requestsMade,   \* number of session.get calls so far
    passes,         \* per pass that ended in a sleep, the response and the wait_time
    scrapePc,       \* "call", "loop", "returned" or "off"
    scrapeResult,   \* the result scrape_url_with_retry returned
    clock,          \* time.time(), in seconds
    cacheFile,      \* the cache file of the key: missing, corrupted or an entry
    lastSet,        \* the last CacheManager.set call
    lastGet,        \* the last CacheManager.get call
    cacheOps        \* number of get and set calls so far

colVars == << namespace, sheetHeaders, prevCall, lastCall, headerWrites >>

sheetVars == << dataRows, dryRun, pc, runHeaders, managedCols, rowIdx,
                results, cellWrites, written, lastRow, useCache, cache,
                onlyNew, processRows >>

urlVars == << urlHeader, cellItems, cellSep, urlPc, cellUrls, dedupIn,
              rowUrls, rowUrls2 >>

scoreVars == << scoreInput, scoreCalls >>

reportVars == << reportInput, reportOut >>

ndeVars == << ndeSheet, ndeDryRun, ensureCalls, lastEnsure, ndeMapped >>

linkVars == << userSheet, linkSheet, daily_link_limit, arp_mode, linkPc, linkRuns, reruns,
              sheet_data, row_index, links_processed_today, processing_ledger,
              runStartCols, lastLinkRow >>

frVars == << reportIntel, finalReport, reportDone >>

rateVars == << rateNow, domain_last_request, requestStarts, rateCalls >>

retryVars == << scrapeUrl, attempt, requestsMade, passes, scrapePc, scrapeResult >>

ttlVars == << clock, cacheFile, lastSet, lastGet, cacheOps >>

lateVars == << frVars, rateVars, retryVars, ttlVars >>

addVars == << ndeVars, linkVars, lateVars >>

extVars == << scoreVars, reportVars, addVars >>

vars == << colVars, urlVars, sheetVars, extVars >>

\* --------------------------------------------------------- SpecColumns
\* header cells drawn for the initial sheet
UserHeaders == {Hdr("", "name", 0), Hdr("", " ", 0)}

InitCells(ns) ==
    UserHeaders \cup {Blank, Hdr(ns, "STATUS", 0),
                      Hdr(ns, "LINK_SUMMARY", MaxLinkSummaries + 1)}

\* rows as worksheet.row_values(1) returns them: no trailing empty cell
HeaderRows(ns) ==
    UNION {{r \in [1..k -> InitCells(ns)] : r[k] # Blank} : k \in 1..MaxHdrLen}

UrlIdle ==
    /\ urlHeader = Blank
    /\ cellItems = << >>
    /\ cellSep = << >>
    /\ urlPc = "off"
    /\ cellUrls = << >>
    /\ dedupIn = << >>
    /\ rowUrls = << >>
    /\ rowUrls2 = << >>

ZeroResults == [total_processed |-> 0, successful |-> 0, skipped_tos |-> 0,
                no_urls |-> 0, errors |-> 0]

NoRow == [row_number |-> 0, cells |-> << >>, urls |-> << >>, invoked |-> << >>,
          statuses |-> << >>, status |-> "", updates |-> NoMapping,
          write_raised |-> FALSE, from_cache |-> << >>,
          source_row |-> 0, fetched |-> << >>]

SheetIdle ==
    /\ dataRows = << >>
    /\ dryRun = FALSE
    /\ pc = "off"
    /\ runHeaders = << >>
    /\ managedCols = NoMapping
    /\ rowIdx = 0
    /\ results = ZeroResults
    /\ cellWrites = 0
    /\ written = {}
    /\ lastRow = NoRow
    /\ useCache = TRUE
    /\ cache = << >>
    /\ onlyNew = FALSE
    /\ processRows = << >>

ScoreIdle ==
    /\ scoreInput = << >>
    /\ scoreCalls = << >>

NoReport == [called |-> FALSE, summaries |-> << >>, combined |-> 0]

ReportIdle ==
    /\ reportInput = << >>
    /\ reportOut = NoReport

NoEnsure ==
    [called |-> FALSE, dry_run |-> FALSE, existing |-> << >>, raised |-> FALSE,
     wrote |-> FALSE, headers_to_add |-> << >>, enrich_columns |-> << >>,
     total_columns |-> 0, after |-> << >>]

NoMapped == [called |-> FALSE, result |-> << >>, mapped |-> << >>]

NdeIdle ==
    /\ ndeSheet = << >>
    /\ ndeDryRun = FALSE
    /\ ensureCalls = 0
    /\ lastEnsure = NoEnsure
    /\ ndeMapped = NoMapped

NoLinkRow ==
    [row_index |-> 0, started_at |-> 0, links |-> << >>, all_link_intel |-> << >>,
     searched_at |-> << >>, wrote |-> FALSE, start_col |-> 0, cells |-> {}]

LinkIdle ==
    /\ userSheet = << >>
    /\ linkSheet = << >>
    /\ daily_link_limit = 0
    /\ arp_mode = FALSE
    /\ linkPc = "off"
    /\ linkRuns = 0
    /\ reruns = FALSE
    /\ sheet_data = << >>
    /\ row_index = 0
    /\ links_processed_today = 0
    /\ processing_ledger = << >>
    /\ runStartCols = << >>
    /\ lastLinkRow = NoLinkRow

FrIdle ==
    /\ reportIntel = << >>
    /\ finalReport = << >>
    /\ reportDone = FALSE

RateIdle ==
    /\ rateNow = 0
    /\ domain_last_request = << >>
    /\ requestStarts = << >>
    /\ rateCalls = 0

NoUrl == [scheme |-> "", netloc |-> ""]

NoScrape == [returned |-> FALSE, status |-> "", attempts |-> 0]

RetryIdle ==
    /\ scrapeUrl = NoUrl
    /\ attempt = 0
    /\ requestsMade = 0
    /\ passes = << >>
    /\ scrapePc = "off"
    /\ scrapeResult = NoScrape

NoSet == [called |-> FALSE, value |-> "", ttl |-> NoTtl, at |-> 0, raised |-> FALSE, stored |-> FALSE]

NoGet == [called |-> FALSE, at |-> 0, found |-> "", none |-> FALSE, returned |-> "",
          raised |-> FALSE]

TtlIdle ==
    /\ clock = 0
    /\ cacheFile = NoFile
    /\ lastSet = NoSet
    /\ lastGet = NoGet
    /\ cacheOps = 0

LateIdle == FrIdle /\ RateIdle /\ RetryIdle /\ TtlIdle

AddIdle == NdeIdle /\ LinkIdle /\ LateIdle

ExtIdle == ScoreIdle /\ ReportIdle /\ AddIdle

InitColumns ==
    /\ SheetIdle
    /\ ExtIdle
    /\ namespace \in Namespaces
    /\ sheetHeaders \in HeaderRows(namespace)
    /\ prevCall = NoCall
    /\ lastCall = NoCall
    /\ headerWrites = 0
    /\ UrlIdle

SetupManagedColumns ==
    \E n \in 0..MaxLinkSummaries, outcome \in UpdateOutcomes :
      \E c \in {setup_call(sheetHeaders, namespace, n, outcome)} :
        /\ headerWrites < MaxHeaderWrites
        /\ ~lastCall.raised
        /\ c.wrote \/ outcome = "ok"
        /\ sheetHeaders' = c.after
        /\ prevCall' = lastCall
        /\ lastCall' = c
        /\ headerWrites' = headerWrites + (IF c.wrote THEN 1 ELSE 0)
        /\ UNCHANGED << namespace, urlVars, sheetVars, extVars >>

NextColumns == SetupManagedColumns

SpecColumns == InitColumns /\ [][NextColumns]_vars

\* -------------------------------------------------------------- SpecUrl
\* texts that are one URL each
UrlItems ==
    { << "https://", "example", ".", "com" >>,
      << "example", ".", "com", "/", "about" >>,
      << "https://", "example", ".", "com", "/", "about", "?id=1" >>,
      << "http://", "Example", ".", "com", "?utm_source=x" >>,
      << "https://", "linkedin", ".", "com", "/", "in" >>,
      << "www", ".", "example", ".", "com" >> }

\* texts that are no URL: an e-mail address, a name
OtherItems == { << "john", "@", "example", ".", "com" >>, << "John" >> }

\* what is typed between two items of a cell
Joiners == {<< s >> : s \in url_separators} \cup {<< ",", " " >>}

RECURSIVE Join(_, _)
Join(items, sep) ==
    IF items = << >> THEN << >>
    ELSE IF Len(items) = 1 THEN items[1]
    ELSE items[1] \o sep \o Join(Tail(items), sep)

\* the text of the cell
CellText == Join(cellItems, cellSep)

ColIdle ==
    /\ namespace = "ENRICH_"
    /\ sheetHeaders = << >>
    /\ prevCall = NoCall
    /\ lastCall = NoCall
    /\ headerWrites = 0

InitUrl ==
    /\ ColIdle
    /\ SheetIdle
    /\ ExtIdle
    /\ urlHeader \in {Hdr("", "website", 0), Hdr("", "email", 0)}
    /\ \E k \in 1..MaxCellItems :
          cellItems \in [1..k -> UrlItems \cup OtherItems]
    /\ cellSep \in Joiners
    /\ Len(cellItems) = 1 => cellSep = << "," >>
    /\ urlPc = "input"
    /\ cellUrls = << >>
    /\ dedupIn = << >>
    /\ rowUrls = << >>
    /\ rowUrls2 = << >>

\* _extract_urls_from_cell on the cell
ExtractUrlsFromCell ==
    /\ urlPc = "input"
    /\ cellUrls' = _extract_urls_from_cell(CellText)
    /\ urlPc' = "extracted"
    /\ UNCHANGED << colVars, sheetVars, extVars, urlHeader, cellItems, cellSep, dedupIn,
                    rowUrls, rowUrls2 >>

\* extract_urls_from_row on the one-column sheet holding the cell
ExtractUrlsFromRow ==
    /\ urlPc = "extracted"
    /\ dedupIn' = normalized_urls(all_urls(<< urlHeader >>, << CellText >>))
    /\ rowUrls' = extract_urls_from_row(<< urlHeader >>, << CellText >>)
    /\ urlPc' = "row"
    /\ UNCHANGED << colVars, sheetVars, extVars, urlHeader, cellItems, cellSep, cellUrls,
                    rowUrls2 >>

\* _deduplicate_urls on its own output
DeduplicateAgain ==
    /\ urlPc = "row"
    /\ rowUrls2' = _deduplicate_urls(rowUrls)
    /\ urlPc' = "again"
    /\ UNCHANGED << colVars, sheetVars, extVars, urlHeader, cellItems, cellSep, cellUrls,
                    dedupIn, rowUrls >>

NextUrl == ExtractUrlsFromCell \/ ExtractUrlsFromRow \/ DeduplicateAgain

SpecUrl == InitUrl /\ [][NextUrl]_vars


\* ------------------------------------------------------------ SpecSheet
\* the user columns of the sheet
LeadHeaders == << Hdr("", "name", 0), Hdr("", "website", 0), Hdr("", "email", 0) >>

EmailText == << "john", "@", "example", ".", "com" >>

\* the website cells typed into the lead rows
WebsiteTexts ==
    { << >>,
      << "https://", "example", ".", "com" >>,
      << "https://", "linkedin", ".", "com", "/", "in" >>,
      << "https://", "linkedin", ".", "com", "/", "in", ",", " ",
         "https://", "example", ".", "com" >>,
      << "https://", "example", ".", "com", ",",
         "https://", "example", ".", "com", "/", "about" >>,
      << "https://", "linkedin", ".", "com", "/", "posts" >> }

\* lead rows: a name, a website cell, an e-mail cell
LeadRows ==
    { << << "John" >>, w, << >> >> : w \in WebsiteTexts }
    \cup { << << "John" >>, << >>, EmailText >> }

\* a lead row as an earlier run left it: the summary of its link with the
\* line that gives the URL, four empty summaries, the combined report with
\* its line of data sources, the score, its notes, the status and the time
EnrichedRow ==
    << << "John" >>, << "https://", "example", ".", "com" >>, << >>,
       << "https://", "example", ".", "com", "\n" >>, << >>, << >>, << >>, << >>,
       << "example", ".", "com" >>, << "75" >>, << "notes" >>, << "OK" >>,
       << "2025" >> >>

\* the rows a sheet with the given header row can hold
SheetRows(headers) ==
    LeadRows \cup (IF Len(headers) > Len(LeadHeaders) THEN {EnrichedRow} ELSE {})

\* the cache left by earlier runs: empty, or holding a result for one URL
CachedBefore ==
    { << >>, [u \in {<< "https://", "example", ".", "com" >>} |-> "OK"] }

\* BaseHandler.get_cached_result returns a result for the URL: the handlers
\* but the GitHub one ask for it first thing in process
cache_hit(cached, url) ==
    /\ _find_handler(url) \notin {"none", "github"}
    /\ url \in DOMAIN cached

\* the cache after cache_result has stored the results of the URLs that
\* were processed fresh
cache_results(cached, urls, outs) ==
    LET fresh == {j \in 1..Len(urls) :
                    /\ _find_handler(urls[j]) \notin {"none", "github"}
                    /\ ~cache_hit(cached, urls[j])
                    /\ outs[j] # "raise"}
    IN  [u \in DOMAIN cached \cup {urls[j] : j \in fresh} |->
            IF u \in DOMAIN cached THEN cached[u]
            ELSE outs[CHOOSE j \in fresh : urls[j] = u]]

InitSheet ==
    /\ ExtIdle
    /\ namespace \in Namespaces
    /\ sheetHeaders \in {LeadHeaders,
                         LeadHeaders \o required_headers(namespace, MAX_LINK_SUMMARIES)}
    /\ prevCall = NoCall
    /\ lastCall = NoCall
    /\ headerWrites = 0
    /\ UrlIdle
    /\ \E k \in 0..MaxRows : dataRows \in [1..k -> SheetRows(sheetHeaders)]
    /\ dryRun \in BOOLEAN
    /\ pc = "start"
    /\ runHeaders = << >>
    /\ managedCols = NoMapping
    /\ rowIdx = 0
    /\ results = ZeroResults
    /\ cellWrites = 0
    /\ written = {}
    /\ lastRow = NoRow
    /\ useCache \in BOOLEAN
    /\ cache \in CachedBefore
    /\ onlyNew \in BOOLEAN
    /\ processRows = << >>

\* process_sheet up to the loop: setup_managed_columns, get_all_data, the
\* choice of process_rows (row_range at its default)
ProcessSheetStart ==
    /\ pc = "start"
    /\ \E outcome \in UpdateOutcomes :
        \E c \in {setup_call(sheetHeaders, namespace, MAX_LINK_SUMMARIES, outcome)} :
          /\ c.wrote \/ outcome = "ok"
          /\ sheetHeaders' = c.after
          /\ prevCall' = lastCall
          /\ lastCall' = c
          /\ headerWrites' = headerWrites + (IF c.wrote THEN 1 ELSE 0)
          /\ IF c.raised
             THEN /\ pc' = "failed"
                  /\ UNCHANGED << runHeaders, managedCols, processRows >>
             ELSE /\ processRows' = process_rows(dataRows, c.mapping, onlyNew)
                  /\ pc' = IF processRows' = << >> THEN "done" ELSE "rows"
                  /\ runHeaders' = c.after
                  /\ managedCols' = c.mapping
    /\ UNCHANGED << namespace, urlVars, extVars, dataRows, dryRun, rowIdx,
                    results, cellWrites, written, lastRow, useCache, cache,
                    onlyNew >>

\* add one to a counter of the results
Count(res, field) == [res EXCEPT ![field] = @ + 1]

status_counter(status) ==
    CASE status = "OK"          -> "successful"
      [] status = "SKIPPED_TOS" -> "skipped_tos"
      [] status = "NO_LINKS"    -> "no_urls"
      [] OTHER                  -> "errors"

\* one iteration of the loop of process_sheet
ProcessRow ==
    /\ pc = "rows"
    /\ \E urls \in {extract_urls_from_row(runHeaders, dataRows[processRows[rowIdx + 1]])} :
       \E outs \in [1..Len(urls) -> ProcessOutcomes] :
        /\ \A j \in 1..Len(urls) : _find_handler(urls[j]) = "none" => outs[j] = "OK"
        /\ \A j \in 1..Len(urls) : cache_hit(cache, urls[j]) => outs[j] = cache[urls[j]]
        /\ \A j \in 1..Len(urls) :
              (_find_handler(urls[j]) \in {"news", "github"} /\ ~cache_hit(cache, urls[j]))
                  => outs[j] # "SKIPPED_TOS"
        /\ cache' = cache_results(cache, urls, outs)
        /\ \E r \in {_process_single_row(urls, managedCols, outs)} :
          /\ LET row_number == 2 + rowIdx
                 counted == Count(Count(results, "total_processed"),
                                  status_counter(r.status))
                 writes == ~dryRun /\ DOMAIN r.updates # {}
                 raises == writes /\ update_cells_raises(r.updates)
             IN  /\ results' = IF raises THEN Count(counted, "errors") ELSE counted
                 /\ cellWrites' = cellWrites + (IF writes /\ ~raises THEN 1 ELSE 0)
                 /\ written' = IF writes /\ ~raises
                               THEN written \cup
                                    {[row |-> row_number, col |-> col,
                                      val |-> r.updates[col]] : col \in DOMAIN r.updates}
                               ELSE written
                 /\ lastRow' = [row_number |-> row_number,
                                source_row |-> 1 + processRows[rowIdx + 1],
                                fetched |-> SelectSeq(urls, LAMBDA u :
                                    \E j \in 1..Len(urls) :
                                        /\ urls[j] = u
                                        /\ fetch_issued(u, outs[j], cache_hit(cache, u))),
                                cells |-> dataRows[processRows[rowIdx + 1]],
                                urls |-> r.urls, invoked |-> r.invoked,
                                statuses |-> r.statuses, status |-> r.status,
                                updates |-> r.updates, write_raised |-> raises,
                                from_cache |-> SelectSeq(urls,
                                                LAMBDA u : cache_hit(cache, u))]
    /\ rowIdx' = rowIdx + 1
    /\ pc' = IF rowIdx + 1 = Len(processRows) THEN "done" ELSE "rows"
    /\ UNCHANGED << colVars, urlVars, extVars, dataRows, dryRun, runHeaders,
                    managedCols, useCache, onlyNew, processRows >>

NextSheet == ProcessSheetStart \/ ProcessRow

SpecSheet == InitSheet /\ [][NextSheet]_vars

\* ------------------------------------------------------------ SpecScore
coreVars == << colVars, urlVars, sheetVars >>

CoreIdle == ColIdle /\ UrlIdle /\ SheetIdle

\* the entries of url_results handed to calculate_score
ScoreEntries ==
    { NoneResult,
      ResultDict("missing", Missing, Missing),
      ResultDict("ERROR", Missing, Missing),
      ResultDict("SKIPPED_TOS", Missing, Missing),
      ResultDict("OK", NoneList, NoneList),
      ResultDict("OK", Missing, Missing),
      ResultDict("OK", ListOf(<< "Basic info" >>), NoneList),
      ResultDict("OK", ListOf(<< "SaaS platform" >>), ListOf(<< "Pricing plans" >>)),
      ResultDict("OK", ListOf(<< "12K followers", "150 stars" >>), ListOf(<< >>)),
      ResultDict("OK", ListOf(<< "Recent post", "Founded Inc." >>),
                 ListOf(<< "We are hiring" >>)),
      ResultDict("OK", ListOf(<< "Free demo" >>), ListOf(<< "Consulting agency" >>)) }

\* the LeadScorer instances the calls are made on
ScorerInstances == {1, 2}

InitScore ==
    /\ CoreIdle
    /\ ReportIdle
    /\ AddIdle
    /\ \E k \in 0..MaxResults : scoreInput \in [1..k -> ScoreEntries]
    /\ scoreCalls = << >>

\* await scorer.calculate_score(url_results) on one of the instances
CalculateScore ==
    /\ Len(scoreCalls) < MaxScoreCalls
    /\ \E inst \in ScorerInstances :
        \E r \in {calculate_score(scoreInput)} :
          scoreCalls' = Append(scoreCalls,
                               [instance |-> inst, raised |-> r.raised,
                                path |-> r.path, score |-> r.score,
                                notes |-> r.notes, components |-> r.components])
    /\ UNCHANGED << coreVars, reportVars, addVars, scoreInput >>

NextScore == CalculateScore

SpecScore == InitScore /\ [][NextScore]_vars

\* ----------------------------------------------------------- SpecReport
\* n key points or signals of len() text_len, the same text n times or n
\* different texts
Texts(n, text_len, same) ==
    [i \in 1..n |-> Text(IF same THEN 0 ELSE i, text_len, FALSE)]

\* a result dict as handler.process returns it
HandlerResult(status, source, n, text_len, same) ==
    [status |-> status, source |-> source, url_len |-> 19,
     key_points |-> Texts(n, text_len, same),
     signals |-> Texts(n, text_len, same), last_checked_len |-> 32]

HandlerResults ==
    { HandlerResult(status, source, n, text_len, same) :
        status \in {"OK", "ERROR"},
        source \in {Text(1, 11, FALSE), Text(2, 300, FALSE)},
        n \in {0, 2, 8}, text_len \in {12, 700}, same \in BOOLEAN }

InitReport ==
    /\ CoreIdle
    /\ ScoreIdle
    /\ AddIdle
    /\ \E k \in 1..MaxReportResults : reportInput \in [1..k -> HandlerResults]
    /\ reportOut = NoReport

\* the summaries and the combined report of _generate_row_updates
GenerateRowUpdates ==
    /\ ~reportOut.called
    /\ reportOut' =
         [called |-> TRUE,
          summaries |-> [i \in 1..Min(Len(reportInput), MAX_LINK_SUMMARIES) |->
                            format_summary(reportInput[i])],
          combined |-> _generate_combined_report(reportInput)]
    /\ UNCHANGED << coreVars, scoreVars, addVars, reportInput >>

NextReport == GenerateRowUpdates

SpecReport == InitReport /\ [][NextReport]_vars

\* ------------------------------------------------------------- SpecNde
\* row 1 of a sheet the enricher has not touched: n user columns, the last
\* of them possibly a user's own column whose name starts with the prefix
UserHeaderRows ==
    {[i \in 1..n |-> UserHeader(i)] : n \in 0..MaxUserColumns}
    \cup {[i \in 1..n |-> IF i = n THEN EnrichHeader("Custom") ELSE UserHeader(i)] :
            n \in 1..MaxUserColumns}

\* scraped titles and descriptions
FieldTexts ==
    { << >>,
      << Run("A", 12) >>,
      << Run("A", 1000) >>,
      << Run("A", 2000) >>,
      << Run("A", 990), Run(" ", 20), Run("A", 5) >> }

\* final reports
ReportTexts ==
    { << Run("#", 10), Run(" ", 2), Run("B", 300) >>,
      << Run("B", 20000) >>,
      << Run("B", 20001) >>,
      << Run("B", 25000) >> }

\* EnrichmentResult objects: built field by field, as a caller may, or
\* filled by process_row from a scraped page
EnrichmentResults ==
    {[page_title |-> t, meta_description |-> << >>, final_report |-> r] :
        t \in FieldTexts, r \in ReportTexts}
    \cup {process_row_fields(t, << Run("A", 12) >>, r) :
            t \in FieldTexts, r \in ReportTexts}

InitNde ==
    /\ CoreIdle
    /\ ScoreIdle
    /\ ReportIdle
    /\ LinkIdle
    /\ LateIdle
    /\ ndeSheet \in UserHeaderRows
    /\ ndeDryRun \in BOOLEAN
    /\ ensureCalls = 0
    /\ lastEnsure = NoEnsure
    /\ ndeMapped = NoMapped

\* read_headers, then ensure_enrichment_headers on what it returned
EnsureEnrichmentHeaders ==
    /\ ensureCalls < MaxEnsureCalls
    /\ \E outcome \in {"ok", "raise"} :
        \E c \in {ensure_enrichment_headers(ndeSheet, ndeDryRun, outcome)} :
          /\ c.raised \/ outcome = "ok"
          /\ ndeSheet' = c.after
          /\ lastEnsure' = c
    /\ ensureCalls' = ensureCalls + 1
    /\ UNCHANGED << coreVars, scoreVars, reportVars, linkVars, lateVars, ndeDryRun, ndeMapped >>

MapResultToColumns ==
    /\ ~ndeMapped.called
    /\ \E result \in EnrichmentResults :
        ndeMapped' = [called |-> TRUE, result |-> result,
                      mapped |-> map_result_to_columns(result)]
    /\ UNCHANGED << coreVars, scoreVars, reportVars, linkVars, lateVars, ndeSheet, ndeDryRun,
                    ensureCalls, lastEnsure >>

NextNde == EnsureEnrichmentHeaders \/ MapResultToColumns

SpecNde == InitNde /\ [][NextNde]_vars

\* ------------------------------------------------------------ SpecLink
\* header rows of the user's sheet: three columns, or columns up to AX
\* followed by columns that are headed or not, the last one headed (the
\* Sheets API drops trailing empty cells)
UserHeaderLayouts ==
    { [i \in 1..3 |-> TextCell("header", i)] }
    \cup { [i \in 1..(AX_COLUMN_INDEX + 1 + Len(tail)) |->
              IF i <= AX_COLUMN_INDEX + 1 THEN TextCell("header", i)
              ELSE IF tail[i - AX_COLUMN_INDEX - 1] THEN TextCell("header", i)
              ELSE Blank] :
           tail \in { << >>, << TRUE >>, << TRUE, TRUE >>, << FALSE, TRUE >> } }

\* what the first three cells of a lead row hold
LeadCells ==
    { << >>,
      << TextCell("name", 1) >>,
      << TextCell("name", 1), UrlCell(1) >>,
      << TextCell("name", 1), UrlCell(1), UrlCell(2) >>,
      << TextCell("name", 1), UrlCell(1), UrlCell(1) >> }

\* a lead row under a header row: its first cells, and user data in every
\* headed column right of them
LeadRow(headers, first) ==
    [i \in 1..(IF Len(headers) > 3 THEN Len(headers) ELSE Len(first)) |->
        IF i <= Len(first) THEN first[i]
        ELSE IF i > 3 /\ truthy(headers[i]) THEN TextCell("data", i)
        ELSE Blank]

UserSheets ==
    { << headers >> \o [r \in 1..n |-> LeadRow(headers, firsts[r])] :
        headers \in UserHeaderLayouts,
        n \in 1..MaxLinkRows,
        firsts \in [1..MaxLinkRows -> LeadCells] }

InitLink ==
    /\ CoreIdle
    /\ ScoreIdle
    /\ ReportIdle
    /\ NdeIdle
    /\ LateIdle
    /\ userSheet \in UserSheets
    /\ linkSheet = userSheet
    /\ daily_link_limit \in 1..MaxDailyLimit
    /\ arp_mode \in BOOLEAN
    /\ linkPc = "idle"
    /\ linkRuns = 0
    /\ reruns \in BOOLEAN
    /\ sheet_data = << >>
    /\ row_index = 0
    /\ links_processed_today = 0
    /\ processing_ledger = << >>
    /\ runStartCols = << >>
    /\ lastLinkRow = NoLinkRow

\* a new LinkIntelligenceOrchestrator and its run() down to the row loop
LinkRunStart ==
    /\ linkPc \in {"idle", "done"}
    /\ linkRuns = 0 \/ (reruns /\ linkRuns < MaxRuns)
    /\ linkRuns' = linkRuns + 1
    /\ sheet_data' = linkSheet
    /\ row_index' = 1
    /\ links_processed_today' = 0
    /\ processing_ledger' = << >>
    /\ lastLinkRow' = NoLinkRow
    /\ runStartCols' = Append(runStartCols, -1)
    /\ linkPc' = "rows"
    /\ UNCHANGED << coreVars, scoreVars, reportVars, ndeVars, lateVars, userSheet, linkSheet,
                    daily_link_limit, arp_mode, reruns >>

\* one pass of the row loop of run(): process_row, write_enrichment_to_sheet
\* and the limit check
LinkRunRow ==
    /\ linkPc = "rows"
    /\ any(sheet_data[row_index + 1])
    /\ \E links \in {discover_links_in_row(sheet_data[row_index + 1])} :
       \E outs \in [1..Len(links) -> {"ok", "error"}] :
       \E outcome \in {"ok", "headers_raise", "row_raise"} :
       \E p \in {process_links(row_index, links, outs, daily_link_limit, 1,
                    [links_processed_today |-> links_processed_today,
                     ledger |-> processing_ledger,
                     all_link_intel |-> << >>, searched_at |-> << >>])} :
       \E w \in {write_enrichment_to_sheet(linkSheet, sheet_data, row_index,
                                           p.all_link_intel, arp_mode, outcome)} :
        LET writes == p.all_link_intel # << >>
        IN  /\ writes \/ outcome = "ok"
            /\ outcome = "headers_raise" => w.needs_headers
            /\ links_processed_today' = p.links_processed_today
            /\ processing_ledger' = p.ledger
            /\ linkSheet' = IF writes THEN w.sheet ELSE linkSheet
            /\ runStartCols' = IF writes /\ w.cells # {}
                               THEN [runStartCols EXCEPT ![linkRuns] = w.start_col]
                               ELSE runStartCols
            /\ lastLinkRow' = [row_index |-> row_index,
                               started_at |-> links_processed_today,
                               links |-> links,
                               all_link_intel |-> p.all_link_intel,
                               searched_at |-> p.searched_at,
                               wrote |-> writes /\ w.cells # {},
                               start_col |-> IF writes THEN w.start_col ELSE 0,
                               cells |-> IF writes THEN w.cells ELSE {}]
            /\ linkPc' = IF \/ p.links_processed_today >= daily_link_limit
                            \/ row_index + 1 >= Len(sheet_data)
                         THEN "done" ELSE "rows"
    /\ row_index' = row_index + 1
    /\ UNCHANGED << coreVars, scoreVars, reportVars, ndeVars, lateVars, userSheet,
                    daily_link_limit, arp_mode, linkRuns, reruns, sheet_data >>

\* a pass of the row loop over an empty row: 'continue'
LinkSkipRow ==
    /\ linkPc = "rows"
    /\ ~any(sheet_data[row_index + 1])
    /\ row_index' = row_index + 1
    /\ linkPc' = IF row_index + 1 >= Len(sheet_data) THEN "done" ELSE "rows"
    /\ UNCHANGED << coreVars, scoreVars, reportVars, ndeVars, lateVars, userSheet, linkSheet,
                    daily_link_limit, arp_mode, linkRuns, reruns, sheet_data,
                    links_processed_today, processing_ledger, runStartCols,
                    lastLinkRow >>

NextLink == LinkRunStart \/ LinkRunRow \/ LinkSkipRow

SpecLink == InitLink /\ [][NextLink]_vars

\* one run with the default ARP_MODE over a sheet of three columns
InitLimit ==
    /\ InitLink
    /\ Len(userSheet[1]) = 3
    /\ arp_mode
    /\ ~reruns

SpecLimit == InitLimit /\ [][NextLink]_vars

\* ------------------------------------------------------- later models
oldVars == << coreVars, scoreVars, reportVars, ndeVars, linkVars >>

OldIdle == CoreIdle /\ ScoreIdle /\ ReportIdle /\ NdeIdle /\ LinkIdle

\* ----------------------------------------------------- SpecFinalReport
\* link intelligence as process_row collects it: a link whose search and
\* scrape raised, one whose scrape reports an error, the two links of
\* test_final_report_generation, and a link with every field filled
IntelKinds ==
    { LinkIntel(FALSE, FALSE, FALSE, FALSE, FALSE, FALSE, FALSE, FALSE, FALSE, FALSE, FALSE),
      LinkIntel(FALSE, FALSE, FALSE, FALSE, FALSE, FALSE, FALSE, FALSE, FALSE, FALSE, TRUE),
      LinkIntel(TRUE, TRUE, FALSE, TRUE, TRUE, TRUE, FALSE, TRUE, FALSE, FALSE, FALSE),
      LinkIntel(TRUE, FALSE, TRUE, FALSE, FALSE, FALSE, FALSE, FALSE, FALSE, FALSE, FALSE),
      LinkIntel(TRUE, TRUE, TRUE, TRUE, TRUE, TRUE, TRUE, TRUE, TRUE, TRUE, TRUE) }

InitFinalReport ==
    /\ OldIdle
    /\ RateIdle
    /\ RetryIdle
    /\ TtlIdle
    /\ \E n \in 1..MaxIntel : reportIntel \in [1..n -> IntelKinds]
    /\ finalReport = << >>
    /\ reportDone = FALSE

GenerateFinalReport ==
    /\ ~reportDone
    /\ reportIntel # << >>
    /\ finalReport' = generate_final_report(reportIntel)
    /\ reportDone' = TRUE
    /\ UNCHANGED << oldVars, rateVars, retryVars, ttlVars, reportIntel >>

NextFinalReport == GenerateFinalReport

SpecFinalReport == InitFinalReport /\ [][NextFinalReport]_vars

\* ------------------------------------------------------------- SpecRate
\* the domains of the URLs of a row
RateDomains == {"example1.com", "example2.com"}

InitRate ==
    /\ OldIdle
    /\ FrIdle
    /\ RetryIdle
    /\ TtlIdle
    /\ rateNow = 0
    /\ domain_last_request = << >>
    /\ requestStarts = << >>
    /\ rateCalls = 0

\* one pass of the loop over the URLs of _process_single_row: the call of
\* _apply_rate_limiting for the URL's domain, gap seconds after the call
\* before it returned, and the start of handler.process when it returns
ApplyRateLimiting ==
    /\ rateCalls < MaxRateCalls
    /\ \E domain \in RateDomains : \E gap \in 0..MaxGap :
        LET now == rateNow + gap
            started == now + sleep_time(domain_last_request, domain, now)
        IN  /\ rateNow' = started
            /\ domain_last_request' = record_request(domain_last_request, domain, now)
            /\ requestStarts' =
                  [d \in DOMAIN requestStarts \cup {domain} |->
                      IF d = domain
                      THEN (IF d \in DOMAIN requestStarts THEN requestStarts[d] ELSE << >>)
                           \o << started >>
                      ELSE requestStarts[d]]
    /\ rateCalls' = rateCalls + 1
    /\ UNCHANGED << oldVars, frVars, retryVars, ttlVars >>

NextRate == ApplyRateLimiting

SpecRate == InitRate /\ [][NextRate]_vars

\* ------------------------------------------------------------ SpecRetry
\* the URLs handed to scrape_url_with_retry: with and without a scheme,
\* without a netloc, on the configured platforms and elsewhere
ScrapeUrls ==
    {Url(scheme, netloc) :
        scheme \in {"", "https"},
        netloc \in {"", "linkedin.com", "facebook.com", "x.com", "example.com"}}

InitRetry ==
    /\ OldIdle
    /\ FrIdle
    /\ RateIdle
    /\ TtlIdle
    /\ scrapeUrl \in ScrapeUrls
    /\ attempt = 0
    /\ requestsMade = 0
    /\ passes = << >>
    /\ scrapePc = "call"
    /\ scrapeResult = NoScrape

\* scrape_url_with_retry up to the loop
ScrapeCall ==
    /\ scrapePc = "call"
    /\ IF validate_url(scrapeUrl)
       THEN /\ scrapePc' = "loop"
            /\ UNCHANGED scrapeResult
       ELSE /\ scrapePc' = "returned"
            /\ scrapeResult' = [returned |-> TRUE, status |-> "failed", attempts |-> 0]
    /\ UNCHANGED << oldVars, frVars, rateVars, ttlVars, scrapeUrl, attempt,
                    requestsMade, passes >>

\* one pass of the loop: session.get, then a return or a sleep
ScrapeAttempt ==
    /\ scrapePc = "loop"
    /\ \E response \in Responses :
       \E o \in {attempt_outcome(scrapeUrl, attempt, response)} :
        /\ requestsMade' = requestsMade + 1
        /\ IF o.status # ""
           THEN /\ scrapePc' = "returned"
                /\ scrapeResult' = [returned |-> TRUE, status |-> o.status,
                                    attempts |-> attempt + 1]
                /\ UNCHANGED << attempt, passes >>
           ELSE IF attempt + 1 < max_retries(scrapeUrl) + 1
           THEN /\ attempt' = attempt + 1
                /\ passes' = Append(passes, [response |-> response,
                                              wait_time |-> o.wait_time])
                /\ UNCHANGED << scrapePc, scrapeResult >>
           ELSE /\ scrapePc' = "returned"
                /\ scrapeResult' = [returned |-> TRUE, status |-> "failed",
                                    attempts |-> max_retries(scrapeUrl) + 1]
                /\ passes' = Append(passes, [response |-> response,
                                              wait_time |-> o.wait_time])
                /\ UNCHANGED attempt
    /\ UNCHANGED << oldVars, frVars, rateVars, ttlVars, scrapeUrl >>

NextRetry == ScrapeCall \/ ScrapeAttempt

SpecRetry == InitRetry /\ [][NextRetry]_vars

\* the code is sequential: a call that can take a step takes it
SpecRetryLive == SpecRetry /\ WF_vars(NextRetry)

\* ------------------------------------------------------------ SpecCache
\* the values cached under the key, the ttl arguments of set and what
\* happens to the write of set
CacheValues == {"result a", "result b"}

TtlArgs == {NoTtl, Ttl(1), Ttl(2)}

WriteOutcomes == {"written", "open fails", "dump fails"}

\* the seconds that pass between two calls
ClockSteps == {1, 2, default_ttl}

\* the cache directory as an earlier run left it for the key
InitCache ==
    /\ OldIdle
    /\ FrIdle
    /\ RateIdle
    /\ RetryIdle
    /\ clock = 0
    /\ cacheFile \in {NoFile, CorruptFile} \cup {Entry(v, 1) : v \in CacheValues}
    /\ lastSet = NoSet
    /\ lastGet = NoGet
    /\ cacheOps = 0

\* await cache_manager.set(key, value, ttl)
CacheSet ==
    /\ cacheOps < MaxCacheOps
    /\ \E value \in CacheValues, ttl \in TtlArgs, outcome \in WriteOutcomes :
       \E r \in {set(cacheFile, value, ttl, clock, outcome)} :
        /\ cacheFile' = r.file
        /\ lastSet' = [called |-> TRUE, value |-> value, ttl |-> ttl, at |-> clock,
                       raised |-> r.raised, stored |-> r.stored]
    /\ lastGet' = NoGet
    /\ cacheOps' = cacheOps + 1
    /\ UNCHANGED << oldVars, frVars, rateVars, retryVars, clock >>

\* await cache_manager.get(key)
CacheGet ==
    /\ cacheOps < MaxCacheOps
    /\ \E r \in {get(cacheFile, clock)} :
        /\ cacheFile' = r.file
        /\ lastGet' = [called |-> TRUE, at |-> clock, found |-> cacheFile.state,
                       none |-> r.none, returned |-> r.returned,
                       raised |-> r.raised]
    /\ cacheOps' = cacheOps + 1
    /\ UNCHANGED << oldVars, frVars, rateVars, retryVars, clock, lastSet >>

\* time.time() moves on between two calls
Tick ==
    /\ cacheOps < MaxCacheOps
    /\ \E d \in ClockSteps : clock' = clock + d
    /\ cacheOps' = cacheOps + 1
    /\ UNCHANGED << oldVars, frVars, rateVars, retryVars, cacheFile, lastSet,
                    lastGet >>

NextCache == CacheSet \/ CacheGet \/ Tick

SpecCache == InitCache /\ [][NextCache]_vars

\* --------------------------------------------------- claims on the columns
Returned(c) == c.called /\ ~c.raised

\* a header cell with visible text outside the managed namespace
IsUserHeader(h, ns) == truthy(h) /\ truthy(strip(h)) /\ ~startswith(h, ns)

IsManagedHeader(h, ns) == truthy(h) /\ startswith(h, ns)

RequiredSet(ns, n) ==
    {required_headers(ns, n)[i] : i \in 1..Len(required_headers(ns, n))}

\* C1: setup_managed_columns never clobbers user columns: every user header
\* of the row before the call stands in the same column after it, and every
\* managed header the call adds lands in a column that was empty or absent.
C1_UserColumnsKept ==
    Returned(lastCall) =>
        /\ \A i \in 1..Len(lastCall.before) :
              IsUserHeader(lastCall.before[i], namespace) =>
                  /\ i <= Len(lastCall.after)
                  /\ lastCall.after[i] = lastCall.before[i]
        /\ \A h \in DOMAIN lastCall.mapping :
              h \notin DOMAIN scan_managed(lastCall.before, namespace) =>
                  \/ lastCall.mapping[h] > Len(lastCall.before)
                  \/ ~truthy(strip(lastCall.before[lastCall.mapping[h]]))

\* C2: a second call with the same max_link_summaries, on the sheet as the
\* first call left it, calls update_headers not at all and returns the
\* mapping the first call returned.
C2_SetupIdempotent ==
    ( /\ Returned(prevCall)
      /\ lastCall.called
      /\ lastCall.n = prevCall.n
      /\ lastCall.before = prevCall.after )
    => ( /\ ~lastCall.wrote
         /\ ~lastCall.raised
         /\ lastCall.mapping = prevCall.mapping )

C2_Witness ==
    /\ Returned(prevCall) /\ prevCall.wrote
    /\ Returned(lastCall) /\ lastCall.n = prevCall.n
    /\ lastCall.n = MaxLinkSummaries
    /\ lastCall.before = prevCall.after

\* C4: after setup_managed_columns(n) returns, the mapping holds every
\* required header, maps no two headers to one column, and the header row
\* holds each mapped header at its mapped column.
C4_MappingComplete ==
    Returned(lastCall) =>
        /\ RequiredSet(namespace, lastCall.n) \subseteq DOMAIN lastCall.mapping
        /\ \A h1, h2 \in DOMAIN lastCall.mapping :
              h1 # h2 => lastCall.mapping[h1] # lastCall.mapping[h2]
        /\ \A h \in DOMAIN lastCall.mapping :
              /\ lastCall.mapping[h] \in 1..Len(lastCall.after)
              /\ lastCall.after[lastCall.mapping[h]] = h
        /\ sheetHeaders = lastCall.after

C4_Witness ==
    /\ Returned(lastCall) /\ lastCall.wrote
    /\ lastCall.n = MaxLinkSummaries
    /\ \E i \in 1..Len(lastCall.before) :
          lastCall.before[i] = Hdr(namespace, "STATUS", 0)
    /\ Cardinality(DOMAIN lastCall.mapping) > MaxLinkSummaries + 5

\* C5: a managed header that exists before the call is mapped to a column
\* where it stood, and stands in every column where it stood, also when
\* max_link_summaries is lower than the number of summary columns present.
C5_ExistingManagedKept ==
    Returned(lastCall) =>
        \A i \in 1..Len(lastCall.before) :
            IsManagedHeader(lastCall.before[i], namespace) =>
                /\ i <= Len(lastCall.after)
                /\ lastCall.after[i] = lastCall.before[i]
                /\ lastCall.before[i] \in DOMAIN lastCall.mapping
                /\ lastCall.mapping[lastCall.before[i]] \in 1..Len(lastCall.before)
                /\ lastCall.before[lastCall.mapping[lastCall.before[i]]]
                       = lastCall.before[i]

C5_Witness ==
    /\ Returned(lastCall) /\ lastCall.wrote
    /\ lastCall.n = 0
    /\ \E i \in 1..Len(lastCall.before) :
          /\ lastCall.before[i] = Hdr(namespace, "LINK_SUMMARY", MaxLinkSummaries + 1)
          /\ i < Len(lastCall.before)


\* ----------------------------------------------------- claims on the sheet
\* C3: a dry run never writes to the sheet: no update_cells call and no
\* update_headers call reaches it, also when the sheet starts without
\* managed columns
C3_DryRunWritesNothing ==
    dryRun => (headerWrites = 0 /\ cellWrites = 0)

\* the header that names the column a written value belongs in
HeaderFor(ns, val) ==
    CASE val.kind = "STATUS"    -> Hdr(ns, "STATUS", 0)
      [] val.kind = "TIMESTAMP" -> Hdr(ns, "LAST_RUN", 0)
      [] val.kind = "SUMMARY"   -> Hdr(ns, "LINK_SUMMARY", val.link)
      [] OTHER                  -> Hdr(ns, val.kind, 0)

\* the values a processed row's results consist of
RowValues(r) ==
    {Val("STATUS", 0, r.status), Val("TIMESTAMP", 0, "")}
    \cup (IF r.statuses = << >> THEN {}
          ELSE {Val("COMBINED_REPORT", 0, ""), Val("LEAD_SCORE", 0, "")}
               \cup {Val("SUMMARY", i, "") :
                        i \in 1..Min(Len(r.statuses), MAX_LINK_SUMMARIES)})

\* the sheet holds a value of the kind of val in row row_number under header h
WrittenUnder(row_number, h, val) ==
    \E w \in written :
        /\ w.row = row_number
        /\ w.val.kind = val.kind
        /\ w.val.link = val.link
        /\ w.col \in 1..Len(sheetHeaders)
        /\ sheetHeaders[w.col] = h

\* C6: with a custom HEADER_NAMESPACE the managed columns are created under
\* that prefix and every processed row's results are written into the
\* columns of that prefix
C6_CustomNamespaceWritten ==
    (namespace = "CUSTOM_" /\ ~dryRun /\ lastRow.row_number > 0)
        => /\ \A h \in RequiredSet(namespace, MAX_LINK_SUMMARIES) :
                \E col \in 1..Len(sheetHeaders) : sheetHeaders[col] = h
           /\ \A val \in RowValues(lastRow) :
                WrittenUnder(lastRow.row_number, HeaderFor(namespace, val), val)

\* C7: a row of which at least one URL was processed with status OK has the
\* row status OK, and its updates hold the combined report and the lead score
C7_OkRowHasReportAndScore ==
    (lastRow.row_number > 0
        /\ \E i \in 1..Len(lastRow.statuses) : lastRow.statuses[i] = "OK")
        => /\ lastRow.status = "OK"
           /\ \E col \in DOMAIN lastRow.updates :
                col # 0 /\ lastRow.updates[col].kind = "COMBINED_REPORT"
           /\ \E col \in DOMAIN lastRow.updates :
                col # 0 /\ lastRow.updates[col].kind = "LEAD_SCORE"

\* the cells of a row that holds no web URL: empty, a name, an e-mail address
NoUrlTexts == {<< >>, << "John" >>, EmailText}

\* C8: a row whose cells hold no web URL (here under the default namespace)
\* gets the status NO_LINKS, no handler is invoked for it, and its updates
\* set the STATUS column to NO_LINKS
C8_NoUrlRowIsNoLinks ==
    (namespace = "ENRICH_" /\ lastRow.row_number > 0
        /\ \A i \in 1..Len(lastRow.cells) : lastRow.cells[i] \in NoUrlTexts)
        => /\ lastRow.status = "NO_LINKS"
           /\ lastRow.invoked = << >>
           /\ mc_get(managedCols, Hdr(namespace, "STATUS", 0)) \in DOMAIN lastRow.updates
           /\ lastRow.updates[mc_get(managedCols, Hdr(namespace, "STATUS", 0))]
                = Val("STATUS", 0, "NO_LINKS")

\* ------------------------------------------------------ claims on URLs
\* C9: _extract_urls_from_cell returns exactly one entry per URL of the
\* cell: a cell typed from N URLs and separators yields those N URLs, in
\* order, nothing twice and no fragment of a URL as a further entry.
C9_OneEntryPerUrl ==
    ( /\ urlPc \in {"extracted", "row", "again"}
      /\ \A i \in 1..Len(cellItems) : cellItems[i] \in UrlItems )
    => cellUrls = cellItems

\* the key as the claim states it: (scheme, host, path)
ClaimKey(url) ==
    << urlparse(url).scheme,
       [i \in 1..Len(urlparse(url).netloc) |-> lower(urlparse(url).netloc[i])],
       urlparse(url).path >>

\* indices of the first occurrence of every key
FirstIdxs(urls) ==
    {i \in 1..Len(urls) :
        \A j \in 1..(i - 1) : ClaimKey(urls[j]) # ClaimKey(urls[i])}

RECURSIVE PickIdxs(_, _, _)
PickIdxs(urls, idxs, i) ==
    IF i > Len(urls) THEN << >>
    ELSE (IF i \in idxs THEN << urls[i] >> ELSE << >>)
            \o PickIdxs(urls, idxs, i + 1)

\* C10: the URLs returned for a row are pairwise distinct on (scheme, host,
\* path); they are the first occurrence of each key, in their original
\* order; deduplicating the result again changes nothing.
C10_DedupFirstOccurrence ==
    /\ urlPc \in {"row", "again"} =>
          /\ \A i, j \in 1..Len(rowUrls) :
                i # j => ClaimKey(rowUrls[i]) # ClaimKey(rowUrls[j])
          /\ rowUrls = PickIdxs(dedupIn, FirstIdxs(dedupIn), 1)
    /\ urlPc = "again" => rowUrls2 = rowUrls

C10_Witness ==
    /\ urlPc = "again"
    /\ Len(dedupIn) >= 3
    /\ Len(rowUrls) >= 2
    /\ Len(rowUrls) < Len(dedupIn)
    /\ \E i, j \in 1..Len(dedupIn) :
          /\ i < j
          /\ dedupIn[i] # dedupIn[j]
          /\ ClaimKey(dedupIn[i]) = ClaimKey(dedupIn[j])

\* --------------------------------------------------- claims on the score
\* C11: calculate_score never raises and returns an integer score in 0..100
\* with a string of notes, for every list: empty, only failed or skipped
\* results, entries that are None, key_points or signals None or missing
C11_ScoreNeverRaises ==
    \A i \in 1..Len(scoreCalls) :
        /\ ~scoreCalls[i].raised
        /\ scoreCalls[i].score \in 0..100
        /\ scoreCalls[i].notes # << >>
        /\ \A j \in 1..Len(scoreCalls[i].notes) :
               scoreCalls[i].notes[j].text \in STRING

C11_Witness ==
    /\ scoreCalls # << >>
    /\ \E i \in 1..Len(scoreInput) : ~scoreInput[i].dict
    /\ \E i \in 1..Len(scoreInput) :
           scoreInput[i].dict /\ scoreInput[i].key_points.tag = "None"

C13_LengthBounds ==
    reportOut.called =>
        /\ \A i \in 1..Len(reportOut.summaries) :
               reportOut.summaries[i] <= MAX_CELL_CHARS
        /\ reportOut.combined <= MAX_COMBINED_CHARS

C13_Witness ==
    /\ reportOut.called
    /\ \E i \in 1..Len(reportInput) :
          /\ Len(reportInput[i].key_points) > 6
          /\ reportInput[i].key_points[1].len = 700
          /\ reportOut.summaries[i] = MAX_CELL_CHARS
    /\ reportOut.combined = MAX_COMBINED_CHARS

\* C14: with use_cache=False no cached handler result is used: every URL of
\* every processed row is processed fresh
C14_NoCacheProcessesFresh ==
    (~useCache /\ lastRow.row_number > 0) => lastRow.from_cache = << >>

\* ---------------------------------------------------------------- enricher
\* the conjuncts of the append-only claim that do not depend on the limit:
\* existing headers stay where they are, added headers get columns behind
\* them, no two headers share a column
AppendOnly(c) ==
    /\ Len(c.after) >= Len(c.existing)
    /\ \A i \in 1..Len(c.existing) : c.after[i] = c.existing[i]
    /\ ndeSheet = c.after
    /\ \A i \in 1..Len(c.headers_to_add) :
        c.enrich_columns[c.headers_to_add[i]] >= Len(c.existing)
    /\ \A g, h \in DOMAIN c.enrich_columns :
        c.enrich_columns[g] = c.enrich_columns[h] => g = h

\* fewest existing columns with which the loop can reach the skipping
\* test: twelve headers stand before the last optional one
OptionalSkipFrom == MAX_COLUMNS - COLUMN_SAFETY_MARGIN - 12

\* C15 as stated: ensure_enrichment_headers is append-only and its result
\* contains every required enrichment header
C15_AllRequiredHeaders ==
    (lastEnsure.called /\ ~lastEnsure.raised) =>
        /\ AppendOnly(lastEnsure)
        /\ \A i \in 1..Len(REQUIRED_ENRICH_HEADERS) :
            REQUIRED_ENRICH_HEADERS[i] \in DOMAIN lastEnsure.enrich_columns

\* C15: ensure_enrichment_headers leaves every existing header where it is,
\* maps every header it adds to a column index >= the number of existing
\* headers, maps no two headers to one column, and its result contains every
\* required header that is not optional, and the optional ones too when the
\* sheet has fewer than 43 columns
C15_AppendOnlyHeaders ==
    (lastEnsure.called /\ ~lastEnsure.raised) =>
        /\ AppendOnly(lastEnsure)
        /\ \A i \in 1..Len(REQUIRED_ENRICH_HEADERS) :
            (\/ REQUIRED_ENRICH_HEADERS[i] \notin OPTIONAL_ENRICH_HEADERS
             \/ Len(lastEnsure.existing) < OptionalSkipFrom)
            => REQUIRED_ENRICH_HEADERS[i] \in DOMAIN lastEnsure.enrich_columns

C15_Witness ==
    /\ lastEnsure.wrote
    /\ Len(lastEnsure.existing) >= OptionalSkipFrom
    /\ \E h \in OPTIONAL_ENRICH_HEADERS : h \notin DOMAIN lastEnsure.enrich_columns
    /\ \E h \in OPTIONAL_ENRICH_HEADERS : h \in DOMAIN lastEnsure.enrich_columns

\* C16: after ensure_enrichment_headers the sheet has at most MAX_COLUMNS
\* columns, existing and enrichment columns together
C16_ColumnCapacity ==
    (lastEnsure.called /\ ~lastEnsure.raised) =>
        lastEnsure.total_columns <= MAX_COLUMNS

\* C17: every text field mapped for writing is at most MAX_FIELD_LENGTH
\* characters and the final report at most MAX_REPORT_LENGTH characters
C17_FieldsTruncated ==
    ndeMapped.called =>
        /\ ndeMapped.mapped.page_title <= MAX_FIELD_LENGTH
        /\ ndeMapped.mapped.meta_description <= MAX_FIELD_LENGTH
        /\ ndeMapped.mapped.final_report <= MAX_REPORT_LENGTH

\* ------------------------------------------------------ link intelligence
\* C18: every cell written by write_enrichment_to_sheet lies right of AX, in
\* a column that held no user header or data before the run
C18_OnlyEmptyColumnsAfterAX ==
    \A c \in lastLinkRow.cells :
        /\ c.col > AX_COLUMN_INDEX
        /\ \A r \in 0..(Len(userSheet) - 1) : cell_at(userSheet, r, c.col) = Blank

\* C19: a run over a sheet that an earlier run has enriched writes into the
\* columns the first run wrote into
C19_RerunSameColumns ==
    \A i \in 2..Len(runStartCols) :
        (runStartCols[1] # -1 /\ runStartCols[i] # -1)
        => runStartCols[i] = runStartCols[1]

C21_SixToTwelveBullets ==
    reportDone => (Len(finalReport) >= 6 /\ Len(finalReport) <= 12)

\* ------------------------------------------- claims on only_new and status
\* the sheet rows whose cell under the COMBINED_REPORT header of the
\* namespace is empty
EmptyReportRows ==
    LET cols == {c \in 1..Len(sheetHeaders) :
                    sheetHeaders[c] = Hdr(namespace, "COMBINED_REPORT", 0)}
    IN  {1 + k : k \in {i \in 1..Len(dataRows) :
                    \A c \in cols : Len(dataRows[i]) < c \/ blank_text(dataRows[i][c])}}

\* C22: with only_new=True process_sheet processes exactly the rows whose
\* COMBINED_REPORT cell is empty, and writes each processed row's results to
\* the sheet row its data was read from, never into an enriched lead's row
C22_OnlyNewRowsInPlace ==
    (onlyNew /\ pc \in {"rows", "done"}) =>
        /\ {1 + processRows[i] : i \in 1..Len(processRows)} = EmptyReportRows
        /\ lastRow.row_number > 0 => lastRow.row_number = lastRow.source_row
        /\ \A w \in written : w.row \in EmptyReportRows

\* C23: the value written into a row's STATUS column equals the overall
\* status computed for the row, which is the one counted for it in the
\* result of process_sheet
C23_StatusColumnIsRowStatus ==
    lastRow.row_number > 0 =>
        /\ results[status_counter(lastRow.status)] > 0
        /\ \A w \in written :
              (w.row = lastRow.row_number /\ w.val.kind = "STATUS")
                  => w.val.text = lastRow.status

\* self.forbidden_domains of RobotsChecker
forbidden_domains ==
    { << "linkedin", ".", "com" >>, << "www", ".", "linkedin", ".", "com" >> }

\* C24: no handler issues an HTTP request to a URL on the forbidden domain
\* linkedin.com, whatever the path of the URL
C24_NoLinkedInFetch ==
    \A i \in 1..Len(lastRow.fetched) :
        _extract_domain(lastRow.fetched[i]) \notin forbidden_domains

\* C25: a row whose only URLs are on the ToS-forbidden platform has the row
\* status SKIPPED_TOS and is counted under skipped_tos
C25_LinkedInRowSkipped ==
    (/\ lastRow.row_number > 0
     /\ lastRow.urls # << >>
     /\ \A i \in 1..Len(lastRow.urls) :
            _extract_domain(lastRow.urls[i]) \in forbidden_domains)
        => /\ lastRow.status = "SKIPPED_TOS"
           /\ results.skipped_tos > 0

\* ----------------------------------------------------------- rate limiting
\* C26: any two consecutive requests to the same domain start at least
\* per_domain_delay apart, the third and later requests included
C26_PerDomainDelay ==
    \A d \in DOMAIN requestStarts :
        \A i \in 1..Len(requestStarts[d]) - 1 :
            requestStarts[d][i + 1] - requestStarts[d][i] >= per_domain_delay

\* ------------------------------------------------- values under headers
\* the header names the value: the columns of link i for its URL and its
\* summaries, the report and score columns, the ARP columns in their order
names(h, val) ==
    CASE val.ns = "url"               -> h.ns = "L" /\ h.kind = "URL"
      [] val.kind = "search summary"  -> h = Hdr("L", "Search Summary", val.idx)
      [] val.kind = "scrape summary"  -> h = Hdr("L", "Scrape Summary", val.idx)
      [] val.kind = "final report"    -> h = Hdr("", "Final Report (All Links)", 0)
      [] val.kind = "lead score"      -> h = Hdr("", "Lead Score (0-100)", 0)
      [] val.kind = "arp"             -> h = arp_headers[val.idx]
      [] OTHER                        -> FALSE

\* the cells of the lead rows that the runs have written: they hold
\* something else than the user left there
WrittenCells ==
    {rc \in UNION {{<< r, c >> : c \in 0..(Len(linkSheet[r + 1]) - 1)} :
                        r \in 1..(Len(linkSheet) - 1)} :
        /\ truthy(cell_at(linkSheet, rc[1], rc[2]))
        /\ cell_at(linkSheet, rc[1], rc[2]) # cell_at(userSheet, rc[1], rc[2])}

\* C27: every value written for a row sits under the header that names it,
\* for all enriched rows, rows with different numbers of links included
C27_ValuesUnderHeaders ==
    \A rc \in WrittenCells :
        names(cell_at(linkSheet, 0, rc[2]), cell_at(linkSheet, rc[1], rc[2]))

\* ------------------------------------------------- failed header update
\* C28: a failed header update never loses existing headers: when
\* update_headers raises while setup_managed_columns adds managed headers,
\* the header row still holds every header it held before the call
C28_FailedUpdateKeepsHeaders ==
    (lastCall.called /\ lastCall.wrote /\ lastCall.raised) =>
        \A i \in 1..Len(lastCall.before) :
            truthy(lastCall.before[i]) =>
                /\ i <= Len(sheetHeaders)
                /\ sheetHeaders[i] = lastCall.before[i]

\* ------------------------------------------------------------------ retry
\* a URL without a scheme or without a netloc
InvalidUrl(url) == url.scheme = "" \/ url.netloc = ""

\* the allowance of the URL's platform: 1 for facebook.com, 2 for
\* linkedin.com and x.com, 3 elsewhere
RetriesAllowed(url) ==
    IF url.netloc = "facebook.com" THEN 1
    ELSE IF url.netloc \in {"linkedin.com", "x.com"} THEN 2 ELSE 3

FinalStatuses == {"success", "failed", "blocked", "not_found"}

\* C29: scrape_url_with_retry always terminates: whatever the responses,
\* time-outs and connection errors, it returns a result with a final status
\* after at most max_retries + 1 HTTP requests, and after none at all for
\* an invalid URL
C29_TerminatesWithinRetries ==
    <>(/\ scrapePc = "returned"
       /\ scrapeResult.returned
       /\ scrapeResult.status \in FinalStatuses
       /\ requestsMade <= RetriesAllowed(scrapeUrl) + 1
       /\ InvalidUrl(scrapeUrl) => requestsMade = 0)

\* every attempt of a URL anywhere else timed out: four requests, then
\* the result 'failed'
C29_Witness ==
    /\ scrapePc = "returned"
    /\ scrapeUrl = Url("https", "example.com")
    /\ requestsMade = 4
    /\ Len(passes) = 3
    /\ \A i \in 1..3 : passes[i].response = "Timeout"
    /\ scrapeResult.status = "failed"

\* ------------------------------------------------------------------ cache
\* the time the entry of a set call expires: the time of the call plus the
\* ttl, 24 hours when no ttl was given
Expiry(s) == s.at + (IF s.ttl.given THEN s.ttl.seconds ELSE 86400)

============================================================================
